---- MODULE Spec2Model ----
\* A model of the godartsass Transpiler (src/transpiler.go): the pending-call
\* registry, Execute/newCall/sendInboundMessage, Close, the reader loop input()
\* with its shutdown sweep, and the embedded compiler as the environment.
\*
\* Granularity.  Every critical section of t.mu is one action (the lock makes it
\* atomic); a whole sendInboundMessage is one action (it runs under t.sendMu, and
\* the only writers of closing/shutdown, Close and the sweep, need t.sendMu too);
\* Close and the sweep are one action each (both hold t.sendMu and t.mu from start
\* to end).  What happens between two critical sections of one goroutine is
\* interleaved freely with the other goroutines.
EXTENDS Integers, Sequences, FiniteSets, TLC

\* ---------------------------------------------------------------- bounds
MaxExec == 2        \* number of Execute invocations
MaxClose == 2       \* number of Close invocations

Execs == 1..MaxExec
Closers == 1..MaxClose

\* error values
ErrNil == "nil"
ErrShutdown == "connection is shut down"
ErrUnexpectedEOF == "unexpected EOF"
ErrEOF == "EOF"
ErrAlreadyClosed == "file already closed"
ErrTimeout == "timeout waiting for Dart Sass to respond"
ErrInvalid == "invalid OutputStyle or SourceSyntax"
ErrWrite == "write: broken pipe"
ErrPayload == "failed to write payload"
ErrNotFound == "call with ID not found"
ErrConn == "exit status 1"
ErrSass == "SASS error"
ErrUnsupported == "unsupported response message type"
ErrDecode == "proto: cannot parse invalid wire-format data"

NoId == -1
NoHandle == 0
NoResolver == 0

\* Tasks: the Execute callers are 1..MaxExec, the reader goroutine and the Close
\* callers follow.  NoTask is an unlocked mutex.
NoTask == 0
Reader == MaxExec + 1
Closer(k) == MaxExec + 1 + k

VARIABLES
  closing,     \* Transpiler.closing
  shutdown,    \* Transpiler.shutdown
  seq,         \* Transpiler.seq
  pending,     \* Transpiler.pending: id -> call (a call is named by the Execute that made it)
  calls,       \* the call records on the heap
  pc,          \* where each Execute is
  args,        \* the Args each Execute was given
  ret,         \* what each Execute returned
  hist,        \* per Execute: what was true when it was invoked (history)
  cpc,         \* where each Close is
  cret,        \* what each Close returned
  connClosed,  \* number of times conn.Close() ran
  rpc,         \* where the reader goroutine is
  rerr,        \* the reader's terminating error
  rreply,      \* the callback reply the reader is about to send
  wire,        \* frames written to the child's stdin, in order
  childUp,     \* the child process is running
  emitted,     \* compile responses the compiler emitted and the reader read (history)
  served,      \* callbacks the reader served: which resolver for which compilation
  fault,       \* the child failed: it exited although nobody closed its stdin, or
               \* it reported a protocol error (history)
  sweptClosing, \* closing, as the sweep read it (history)
  mu,          \* Transpiler.mu: the task that holds it
  sendMu,      \* Transpiler.sendMu: the task that holds it
  stream,      \* what conn.Write put on the child's stdin, write by write
  panicWhen,   \* per Execute: where it is made to panic (the testing setting)
  sent,        \* the callback requests and log events the reader has read, in order
  logged,      \* the LogEvents passed to opts.LogEventHandler, in order
  logHandler,  \* opts.LogEventHandler is installed
  cio,         \* conn.Close: what its three steps will answer (the environment)
  cstep,       \* conn.Close: the steps it has performed, in order, with their results
  cout,        \* conn.Close: what it returned
  tbuf,        \* tailBuffer: the bytes it holds
  twritten,    \* tailBuffer: every byte written to it, in order (history)
  oin,         \* transpilerOptions: importResolver and includePaths as passed
  oimporters,  \* transpilerOptions.sassImporters after init
  pin,         \* the string given to ParseOutputStyle / ParseSourceSyntax
  pout,        \* what the two functions made of it
  dcall,       \* call.done: the call record with its channel
  dpc,         \* call.done: where each completer is
  dwait,       \* call.done: where the caller that made the call is
  dgot         \* call.done: number of completions the caller received

\* The variables of the lock-level specification only.
lockVars == <<mu, sendMu, stream, panicWhen>>

\* The variables of the specifications of the reader's callbacks and log events,
\* of conn, of tailBuffer, of the options and of the two parsers.
readerVars == <<sent, logged, logHandler>>
connVars == <<cio, cstep, cout>>
tailVars == <<tbuf, twritten>>
optsVars == <<oin, oimporters>>
parseVars == <<pin, pout>>
doneVars == <<dcall, dpc, dwait, dgot>>
unitVars == <<readerVars, connVars, tailVars, optsVars, parseVars, doneVars>>

\* The variables of the Transpiler.
coreVars == <<closing, shutdown, seq, pending, calls, pc, args, ret, hist, cpc, cret,
              connClosed, rpc, rerr, rreply, wire, childUp, emitted, served, fault,
              sweptClosing>>

vars == <<closing, shutdown, seq, pending, calls, pc, args, ret, hist, cpc, cret,
          connClosed, rpc, rerr, rreply, wire, childUp, emitted, served, fault,
          sweptClosing, mu, sendMu, stream, panicWhen, sent, logged, logHandler,
          cio, cstep, cout, tbuf, twritten, oin, oimporters, pin, pout,
          dcall, dpc, dwait, dgot>>

\* ---------------------------------------------------------------- data
NoMsg == [type |-> "none", id |-> NoId, cid |-> NoId, kind |-> "", body |-> 0]

Msg(t, i, c, k, b) == [type |-> t, id |-> i, cid |-> c, kind |-> k, body |-> b]

NoCall == [made |-> FALSE, reqId |-> NoId, importResolver |-> NoResolver,
           Error |-> ErrNil, Response |-> NoMsg, Done |-> 0, completions |-> 0]

NoRet == [kind |-> "none", err |-> ErrNil, css |-> 0]
RetErr(e) == [kind |-> "err", err |-> e, css |-> 0]
RetOk(css) == [kind |-> "ok", err |-> ErrNil, css |-> css]

\* What was true when the Execute was invoked: a Close had returned, the reader
\* had left its loop, the reader had run its sweep, an Execute had returned a
\* SassError, an Execute had timed out; and the key its call was stored under.
NoHist == [afterClose |-> FALSE, afterExit |-> FALSE, afterSweep |-> FALSE,
           afterSassError |-> FALSE, afterTimeout |-> FALSE, key |-> NoId]

\* The resolver an Execute passes is its own: Execute e passes resolver e.
ArgsSet(e) ==
  {[valid |-> TRUE, resolver |-> r, source |-> e] : r \in {NoResolver, e}}
    \cup {[valid |-> FALSE, resolver |-> NoResolver, source |-> e]}

\* What the compiler makes of a source.
CssOf(source) == 100 + source

\* A Transpiler as Start leaves it.
TranspilerInit ==
  /\ closing = FALSE
  /\ shutdown = FALSE
  /\ seq = 0
  /\ pending = << >>
  /\ calls = [e \in Execs |-> NoCall]
  /\ pc = [e \in Execs |-> "idle"]
  /\ args = [e \in Execs |-> [valid |-> TRUE, resolver |-> NoResolver, source |-> e]]
  /\ ret = [e \in Execs |-> NoRet]
  /\ hist = [e \in Execs |-> NoHist]
  /\ cpc = [k \in Closers |-> "idle"]
  /\ cret = [k \in Closers |-> "none"]
  /\ connClosed = 0
  /\ rpc = "loop"
  /\ rerr = ErrNil
  /\ rreply = NoMsg
  /\ wire = << >>
  /\ childUp = TRUE
  /\ emitted = {}
  /\ served = {}
  /\ fault = FALSE
  /\ sweptClosing = FALSE
  /\ mu = NoTask
  /\ sendMu = NoTask
  /\ stream = << >>
  /\ panicWhen = [e \in Execs |-> "none"]

\* The parts that have a specification of their own, before anything ran.
ReaderIdle == sent = << >> /\ logged = << >> /\ logHandler = FALSE
ConnIdle == cio = << >> /\ cstep = << >> /\ cout = "none"
TailIdle == tbuf = << >> /\ twritten = << >>
OptsIdle == oin = << >> /\ oimporters = << >>
NoParse == [fn |-> "none", first |-> << >>, twice |-> FALSE, again |-> << >>]
ParseIdle == pin = << >> /\ pout = NoParse
DoneIdle == dcall = << >> /\ dpc = << >> /\ dwait = "none" /\ dgot = 0

Init == TranspilerInit /\ DoneIdle /\ ReaderIdle /\ ConnIdle /\ TailIdle /\ OptsIdle /\ ParseIdle

\* ---------------------------------------------------------------- helpers
\* A reader that forgets delete(t.pending, id).
RemoveNothing(p, id) == p

\* delete(t.pending, id)
Remove(p, id) == [k \in DOMAIN p \ {id} |-> p[k]]

\* A newCall that forgets t.pending[id] = call.
PendingPutSkipped(p, id, h) == p

PendingPut(p, id, h) == [k \in DOMAIN p \cup {id} |-> IF k = id THEN h ELSE p[k]]

\* call := t.pending[id]: the zero value (no call) when the key is absent.
PendingLookup(p, id) == IF id \in DOMAIN p THEN p[id] ELSE NoHandle

\* An Args.init that accepts every value.
ArgsInitAccepts(a) == ErrNil

\* Args.init: nil iff OutputStyle and SourceSyntax are known values.
ArgsInit(a) == IF a.valid THEN ErrNil ELSE ErrInvalid

\* An admission test that forgets closing.
newCallRejectsShutdownOnly(sd, cl) == sd

\* An admission test that forgets shutdown.
newCallRejectsClosingOnly(sd, cl) == cl

\* newCall's admission test.
newCallRejects(sd, cl) == sd \/ cl

\* A newCall that forgets t.seq++.
NextSeqStuck(s) == s

\* t.seq++ (a uint32; the wrap-around at 2^32 is beyond every run of MaxExec calls)
NextSeq(s) == s + 1

\* A newCall that forgets to stamp the id: the field keeps its zero value.
StampZero(id) == 0

\* c.CompileRequest.Id = id
StampId(id) == id

\* call.done(): a non-blocking send on the channel of capacity one.
\* completions counts the invocations of done() on the record (history).
done(c) == [c EXCEPT !.Done = IF @ = 0 THEN 1 ELSE @, !.completions = @ + 1]

\* A refusal that forgets to set the error.
RejectedCallNoError(c) == done(c)

\* newCall, refusing: call.Error = ErrShutdown; call.done()
RejectedCall(c) == done([c EXCEPT !.Error = ErrShutdown])

\* A test that forgets closing.
sendRejectsShutdownOnly(cl, sd) == sd

\* sendInboundMessage's test under t.mu.
sendRejects(cl, sd) == cl \/ sd

\* The two conn.Write calls: they fail once the child is gone or stdin is closed.
WriteResult(up, nclosed) == IF up /\ nclosed = 0 THEN ErrNil ELSE ErrWrite

\* n of "n, err = t.conn.Write(out)": all of the payload, or nothing of it when
\* the write fails.
PayloadWritten(up, nclosed, len) == IF WriteResult(up, nclosed) = ErrNil THEN len ELSE 0

\* A sendInboundMessage that returns the error of the payload's write as it is.
PayloadResultRaw(n, len, err) == err

\* What sendInboundMessage returns after the write of the payload.
PayloadResult(n, len, err) == IF n # len THEN ErrPayload ELSE err

sendInboundMessage(cl, sd, up, nclosed) ==
  IF sendRejects(cl, sd) THEN ErrShutdown ELSE WriteResult(up, nclosed)

\* Execute, after the select: the public return made of the completed call.
Convert(c) ==
  IF c.Error # ErrNil THEN RetErr(c.Error)
  ELSE IF c.Response.kind = "Success" THEN RetOk(c.Response.body)
  ELSE RetErr("SassError")

\* A Close that forgets its test.
CloseRejectsNever(cl) == FALSE

\* Close's test.
CloseRejects(cl) == cl

\* A test that knows io.EOF only.
isEOFOnly(err) == err = ErrEOF

\* The sweep's classification of the terminating error.
isEOF(err) == err = ErrEOF \/ err = ErrAlreadyClosed

\* A classification that forgets closing.
ClassifyIgnoringClosing(err, cl) == IF isEOF(err) THEN ErrUnexpectedEOF ELSE err

Classify(err, cl) ==
  IF isEOF(err) THEN (IF cl THEN ErrShutdown ELSE ErrUnexpectedEOF) ELSE err

\* ---------------------------------------------------------------- Execute
\* Execute up to the end of newCall's critical section.
\* Invocations are numbered in the order they are made.
ExecuteNewCall(e) ==
  /\ pc[e] = "idle"
  /\ \A d \in Execs : d < e => pc[d] # "idle"
  /\ rpc # "panic"
  /\ \E a \in ArgsSet(e) :
       LET id == seq
           h0 == [NoHist EXCEPT !.afterClose = \E k \in Closers : cpc[k] = "done",
                                !.afterExit = rpc \in {"exited", "swept"},
                                !.afterSweep = rpc = "swept",
                                !.afterSassError =
                                   \E d \in Execs : ret[d] = RetErr("SassError"),
                                !.afterTimeout =
                                   \E d \in Execs : ret[d] = RetErr(ErrTimeout)]
       IN
       /\ args' = [args EXCEPT ![e] = a]
       /\ IF ArgsInit(a) # ErrNil
          THEN /\ pc' = [pc EXCEPT ![e] = "done"]
               /\ ret' = [ret EXCEPT ![e] = RetErr(ArgsInit(a))]
               /\ hist' = [hist EXCEPT ![e] = h0]
               /\ UNCHANGED <<calls, pending, seq>>
          ELSE LET c == [NoCall EXCEPT !.made = TRUE, !.importResolver = a.resolver]
                   h1 == h0
               IN
               IF newCallRejects(shutdown, closing)
               THEN \* call.done() fills the channel before Execute's select is
                    \* entered, so the select takes it: the timer it arms cannot
                    \* have fired, and no other goroutine knows this call.
                    LET r == RejectedCall(c) IN
                    /\ calls' = [calls EXCEPT ![e] = [r EXCEPT !.Done = 0]]
                    /\ pc' = [pc EXCEPT ![e] = "done"]
                    /\ ret' = [ret EXCEPT ![e] = Convert(r)]
                    /\ hist' = [hist EXCEPT ![e] = h1]
                    /\ UNCHANGED <<pending, seq>>
               ELSE /\ calls' = [calls EXCEPT ![e] = c]
                    /\ pending' = PendingPut(pending, id, e)
                    /\ seq' = NextSeq(seq)
                    /\ pc' = [pc EXCEPT ![e] = "send"]
                    /\ hist' = [hist EXCEPT ![e] = [h1 EXCEPT !.key = id]]
                    /\ UNCHANGED ret
  /\ UNCHANGED <<closing, shutdown, cpc, cret, connClosed, rpc, rerr, rreply, wire,
                 childUp, emitted, served, fault, sweptClosing>>
  /\ UNCHANGED lockVars
  /\ UNCHANGED unitVars

\* The rest of newCall: stamp the id, sendInboundMessage(call.Request).
ExecuteSend(e) ==
  /\ pc[e] = "send"
  /\ rpc # "panic"
  /\ LET c == [calls[e] EXCEPT !.reqId = StampId(hist[e].key)]
         r == sendInboundMessage(closing, shutdown, childUp, connClosed)
     IN
     /\ calls' = [calls EXCEPT ![e] = c]
     /\ IF r = ErrNil
        THEN /\ wire' = Append(wire, Msg("CompileRequest", c.reqId, NoId,
                         IF c.importResolver # NoResolver THEN "importer" ELSE "plain",
                         args[e].source))
             /\ pc' = [pc EXCEPT ![e] = "wait"]
             /\ UNCHANGED ret
        ELSE /\ pc' = [pc EXCEPT ![e] = "done"]
             /\ ret' = [ret EXCEPT ![e] = RetErr(r)]
             /\ UNCHANGED wire
  /\ UNCHANGED <<closing, shutdown, seq, pending, args, hist, cpc, cret, connClosed,
                 rpc, rerr, rreply, childUp, emitted, served, fault, sweptClosing>>
  /\ UNCHANGED lockVars
  /\ UNCHANGED unitVars

\* The select of Execute, case call = <-call.Done.
ExecuteRecv(e) ==
  /\ pc[e] = "wait"
  /\ rpc # "panic"
  /\ calls[e].Done = 1
  /\ calls' = [calls EXCEPT ![e].Done = 0]
  /\ ret' = [ret EXCEPT ![e] = Convert(calls[e])]
  /\ pc' = [pc EXCEPT ![e] = "done"]
  /\ UNCHANGED <<closing, shutdown, seq, pending, args, hist, cpc, cret, connClosed,
                 rpc, rerr, rreply, wire, childUp, emitted, served, fault, sweptClosing>>
  /\ UNCHANGED lockVars
  /\ UNCHANGED unitVars

\* An Execute that takes its record out of pending when it times out.
TimeoutPendingRemoved(p, id) == [k \in DOMAIN p \ {id} |-> p[k]]

\* The pending map after a timeout: Execute returns and touches nothing.
TimeoutPending(p, id) == p

\* The select of Execute, case <-time.After(t.opts.Timeout).  The timer can fire
\* whether or not the completion has arrived meanwhile.
ExecuteTimeout(e) ==
  /\ pc[e] = "wait"
  /\ rpc # "panic"
  /\ pc' = [pc EXCEPT ![e] = "done"]
  /\ ret' = [ret EXCEPT ![e] = RetErr(ErrTimeout)]
  /\ pending' = TimeoutPending(pending, hist[e].key)
  /\ UNCHANGED <<closing, shutdown, seq, calls, args, hist, cpc, cret, connClosed,
                 rpc, rerr, rreply, wire, childUp, emitted, served, fault, sweptClosing>>
  /\ UNCHANGED lockVars
  /\ UNCHANGED unitVars

\* ---------------------------------------------------------------- Close
\* conn.Close(): nil on an orderly teardown; the error of the wait when the
\* child had crashed before.
ConnClose(crashed) == IF crashed THEN ErrConn ELSE ErrNil

Close(k) ==
  /\ cpc[k] = "idle"
  /\ \A j \in Closers : j < k => cpc[j] # "idle"
  /\ rpc # "panic"
  /\ cpc' = [cpc EXCEPT ![k] = "done"]
  /\ IF CloseRejects(closing)
     THEN /\ cret' = [cret EXCEPT ![k] = ErrShutdown]
          /\ UNCHANGED <<closing, connClosed>>
     ELSE /\ closing' = TRUE
          /\ connClosed' = connClosed + 1
          /\ cret' = [cret EXCEPT ![k] = ConnClose(~childUp)]
  /\ UNCHANGED <<shutdown, seq, pending, calls, pc, args, ret, hist, rpc, rerr,
                 rreply, wire, childUp, emitted, served, fault, sweptClosing>>
  /\ UNCHANGED lockVars
  /\ UNCHANGED unitVars

\* ---------------------------------------------------------------- the child
\* The child's stdout is a pipe the reader empties frame by frame.  A frame is
\* drawn here at the moment the reader reads it: it is one the compiler can have
\* written, given the requests and replies that reached its stdin.  Nothing is
\* written to the child once the host has closed the pipe or the child is gone,
\* so what the child can have written before is what it can write now, and the
\* frames still buffered when the pipe closes are the ones enabled then.
Requests == {i \in 1..Len(wire) : wire[i].type = "CompileRequest"}

Answered(i) == \E m \in emitted : m[1] = i

\* The compiler of the model raises at most one callback per compilation.
Raised(i) == \E cb \in served : cb.idx = i

\* The id the compiler gives the callback request of compilation i.
CallbackId(i) == 10 * i

\* The compile response of compilation i: it carries the id of its request.
ResponseOf(i, k) == Msg("CompileResponse", wire[i].id, NoId, k, CssOf(wire[i].body))

\* The callback request of compilation i.
CallbackOf(i, t) == Msg(t, CallbackId(i), wire[i].id, "url", 0)

\* ---------------------------------------------------------------- reader loop
\* A getCall that takes the first pending call, whatever the id.
getCallFirst(p, id) ==
  IF DOMAIN p = {} THEN NoHandle ELSE p[CHOOSE k \in DOMAIN p : \A j \in DOMAIN p : k <= j]

\* t.getCall(id): the call stored under id; NoHandle stands for the panic.
getCall(p, id) == IF id \in DOMAIN p THEN p[id] ELSE NoHandle

\* A reader that takes a resolver's error for its own.
CallbackErrPropagates(resolveErr, sendErr) ==
  IF resolveErr THEN "resolver error" ELSE sendErr

\* The reader's err after a callback: that of sendInboundMessage; the resolver's
\* error went into the reply.
CallbackErr(resolveErr, sendErr) == sendErr

\* What a resolver answers: content that only this resolver gives.
ResolverContent(r) == 200 + r

ReplyType(t) == IF t = "CanonicalizeRequest" THEN "CanonicalizeResponse" ELSE "ImportResponse"

\* case *OutboundMessage_CompileResponse_, for the response of compilation i.
ReaderCompileResponse(i) ==
  /\ rpc = "loop"
  /\ i \in Requests
  /\ ~Answered(i)
  /\ \E k \in {"Success", "Failure"} :
       LET msg == ResponseOf(i, k)
           id == msg.id
           h == PendingLookup(pending, id)
       IN
       /\ emitted' = emitted \cup {<<i, msg>>}
       /\ pending' = Remove(pending, id)
       /\ IF h = NoHandle
          THEN /\ rerr' = ErrNotFound
               /\ rpc' = "exited"
               /\ UNCHANGED calls
          ELSE /\ calls' = [calls EXCEPT ![h] = done([@ EXCEPT !.Response = msg])]
               /\ UNCHANGED <<rerr, rpc>>
  /\ UNCHANGED <<closing, shutdown, seq, pc, args, ret, hist, cpc, cret, connClosed,
                 rreply, wire, childUp, served, fault, sweptClosing>>
  /\ UNCHANGED lockVars
  /\ UNCHANGED unitVars

\* case *OutboundMessage_CanonicalizeRequest_ / *OutboundMessage_ImportRequest_,
\* up to the call of sendInboundMessage, for a callback of compilation i.
ReaderCallback(i) ==
  /\ rpc = "loop"
  /\ i \in Requests
  /\ wire[i].kind = "importer"
  /\ ~Answered(i)
  /\ ~Raised(i)
  /\ \E t \in {"CanonicalizeRequest", "ImportRequest"}, k \in {"result", "error"} :
       LET msg == CallbackOf(i, t)
           h == getCall(pending, msg.cid)
       IN
       IF h = NoHandle \/ calls[h].importResolver = NoResolver
       THEN /\ rpc' = "panic"
            /\ UNCHANGED <<rreply, served>>
       ELSE /\ rpc' = "reply"
            /\ rreply' = Msg(ReplyType(msg.type), msg.id, NoId, k,
                             ResolverContent(calls[h].importResolver))
            /\ served' = served \cup {[idx |-> i, cid |-> msg.cid,
                                       resolver |-> calls[h].importResolver,
                                       kind |-> k]}
  /\ UNCHANGED <<closing, shutdown, seq, pending, calls, pc, args, ret, hist, cpc,
                 cret, connClosed, rerr, wire, childUp, emitted, fault, sweptClosing>>
  /\ UNCHANGED lockVars
  /\ UNCHANGED unitVars

\* err = t.sendInboundMessage(...) of the callback's reply.
ReaderReply ==
  /\ rpc = "reply"
  /\ LET r == CallbackErr(rreply.kind = "error",
                          sendInboundMessage(closing, shutdown, childUp, connClosed))
     IN
     IF r = ErrNil
     THEN /\ wire' = Append(wire, rreply)
          /\ rpc' = "loop"
          /\ UNCHANGED rerr
     ELSE /\ rerr' = r
          /\ rpc' = "exited"
          /\ UNCHANGED wire
  /\ rreply' = NoMsg
  /\ UNCHANGED <<closing, shutdown, seq, pending, calls, pc, args, ret, hist, cpc,
                 cret, connClosed, childUp, emitted, served, fault, sweptClosing>>
  /\ UNCHANGED lockVars
  /\ UNCHANGED unitVars

\* A reader whose read does not notice that the host closed the pipe.
ReadErrorsCrashOnly == IF ~childUp THEN {ErrEOF} ELSE {}

\* A read that stays blocked when the host closes the pipe, until the child exits.
ReadErrorsBlockedOnClose ==
  (IF ~childUp THEN {ErrEOF} ELSE {})
    \cup (IF ~childUp /\ fault THEN {ErrUnexpectedEOF} ELSE {})

\* binary.ReadUvarint / io.ReadFull fail: the host closed the pipe (the read is
\* refused, or sees the end of the stream), or the child is gone (the stream ends,
\* inside a frame when the child crashed while writing one).
ReadErrors ==
  (IF connClosed > 0 THEN {ErrAlreadyClosed, ErrEOF} ELSE {})
    \cup (IF ~childUp THEN {ErrEOF} ELSE {})
    \cup (IF ~childUp /\ fault THEN {ErrUnexpectedEOF} ELSE {})

ReaderReadError ==
  /\ rpc = "loop"
  /\ \E err \in ReadErrors : rerr' = err
  /\ rpc' = "exited"
  /\ UNCHANGED <<closing, shutdown, seq, pending, calls, pc, args, ret, hist, cpc,
                 cret, connClosed, rreply, wire, childUp, emitted, served, fault, sweptClosing>>
  /\ UNCHANGED lockVars
  /\ UNCHANGED unitVars

\* What ends the loop when the child sends what it should not: a frame that does
\* not decode, a top-level Error message, a message of no known variant.
ProtocolErrors == {ErrDecode, ErrSass, ErrUnsupported}

\* proto.Unmarshal fails, case *OutboundMessage_Error, or default: the compiler
\* answers something it was sent with garbage or a protocol error.
ReaderProtocolError ==
  /\ rpc = "loop"
  /\ childUp
  /\ connClosed = 0
  /\ Len(wire) > 0
  /\ \E err \in ProtocolErrors : rerr' = err
  /\ rpc' = "exited"
  /\ fault' = TRUE
  /\ UNCHANGED <<closing, shutdown, seq, pending, calls, pc, args, ret, hist, cpc,
                 cret, connClosed, rreply, wire, childUp, emitted, served, sweptClosing>>
  /\ UNCHANGED lockVars
  /\ UNCHANGED unitVars

\* case *OutboundMessage_CompileResponse_, for a second response to compilation
\* i, which the compiler should not send: its id is in pending no more.
ReaderStrayResponse(i) ==
  /\ rpc = "loop"
  /\ childUp
  /\ connClosed = 0
  /\ i \in Requests
  /\ Answered(i)
  /\ LET msg == ResponseOf(i, "Success")
         h == PendingLookup(pending, msg.id)
     IN
     /\ pending' = Remove(pending, msg.id)
     /\ IF h = NoHandle
        THEN /\ rerr' = ErrNotFound
             /\ rpc' = "exited"
             /\ UNCHANGED calls
        ELSE /\ calls' = [calls EXCEPT ![h] = done([@ EXCEPT !.Response = msg])]
             /\ UNCHANGED <<rerr, rpc>>
  /\ fault' = TRUE
  /\ UNCHANGED <<closing, shutdown, seq, pc, args, ret, hist, cpc, cret, connClosed,
                 rreply, wire, childUp, emitted, served, sweptClosing>>
  /\ UNCHANGED lockVars
  /\ UNCHANGED unitVars

\* A sweep that completes the calls without giving them the error.
SweepCallNoError(c, err) == done(c)

\* One iteration of "for _, call := range t.pending".
SweepCall(c, err) == done([c EXCEPT !.Error = err])

\* A sweep that forgets to set shutdown.
SweepShutdownKept(sd) == sd

\* t.shutdown = true
SweepShutdown(sd) == TRUE

\* A sweep that clears the map.
SweepPendingCleared(p) == [k \in {} |-> NoHandle]

\* The pending map after the sweep: the loop deletes nothing.
SweepPending(p) == p

\* "Terminate pending calls": the end of input().
ReaderSweep ==
  /\ rpc = "exited"
  /\ shutdown' = SweepShutdown(shutdown)
  /\ sweptClosing' = closing
  /\ LET err == Classify(rerr, closing)
         swept == {pending[id] : id \in DOMAIN pending}
     IN calls' = [h \in Execs |-> IF h \in swept THEN SweepCall(calls[h], err) ELSE calls[h]]
  /\ pending' = SweepPending(pending)
  /\ rpc' = "swept"
  /\ UNCHANGED <<closing, seq, pc, args, ret, hist, cpc, cret, connClosed, rerr,
                 rreply, wire, childUp, emitted, served, fault>>
  /\ UNCHANGED lockVars
  /\ UNCHANGED unitVars

\* The child exits: because its stdin was closed, or on its own (a crash).
\* Once shutdown is set nothing looks at the child any more.
ChildExit ==
  /\ childUp
  /\ rpc \in {"loop", "reply", "exited"}
  /\ childUp' = FALSE
  /\ fault' = (fault \/ connClosed = 0)
  /\ UNCHANGED <<closing, shutdown, seq, pending, calls, pc, args, ret, hist, cpc,
                 cret, connClosed, rpc, rerr, rreply, wire, emitted, served, sweptClosing>>
  /\ UNCHANGED lockVars
  /\ UNCHANGED unitVars

\* ---------------------------------------------------------------- specification
Next ==
  \/ \E e \in Execs : ExecuteNewCall(e)
  \/ \E e \in Execs : ExecuteSend(e)
  \/ \E e \in Execs : ExecuteRecv(e)
  \/ \E e \in Execs : ExecuteTimeout(e)
  \/ \E k \in Closers : Close(k)
  \/ \E i \in 1..Len(wire) : ReaderCompileResponse(i)
  \/ \E i \in 1..Len(wire) : ReaderCallback(i)
  \/ ReaderReply
  \/ ReaderReadError
  \/ ReaderProtocolError
  \/ \E i \in 1..Len(wire) : ReaderStrayResponse(i)
  \/ ReaderSweep
  \/ ChildExit

Spec == Init /\ [][Next]_vars

\* The goroutines that exist keep running: the reader returns from a read that
\* fails, finishes the reply it is sending and runs its sweep; an Execute inside
\* newCall goes on to its send, and one whose completion has arrived takes it.
\* Nothing obliges a caller to invoke Execute or Close, or the child to exit.
Fairness ==
  /\ WF_vars(ReaderReadError \/ ReaderReply \/ ReaderSweep)
  /\ \A e \in Execs : WF_vars(ExecuteSend(e) \/ ExecuteRecv(e) \/ ExecuteTimeout(e))

\* The steps of the liveness specification: Next with one invocation of Close.
\* A second Close takes the locks, finds closing set and returns: it changes
\* nothing a later step reads.
FairNext ==
  \/ \E e \in Execs : ExecuteNewCall(e)
  \/ \E e \in Execs : ExecuteSend(e)
  \/ \E e \in Execs : ExecuteRecv(e)
  \/ \E e \in Execs : ExecuteTimeout(e)
  \/ Close(1)
  \/ \E i \in 1..Len(wire) : ReaderCompileResponse(i)
  \/ \E i \in 1..Len(wire) : ReaderCallback(i)
  \/ ReaderReply
  \/ ReaderReadError
  \/ ReaderProtocolError
  \/ \E i \in 1..Len(wire) : ReaderStrayResponse(i)
  \/ ReaderSweep
  \/ ChildExit

FairSpec == Init /\ [][FairNext]_vars /\ Fairness

\* ---------------------------------------------------------------- no deadline
\* The program with Execute's timer never firing (opts.Timeout beyond every run):
\* an Execute that waits leaves its select only with a completion.
NoDeadlineNext ==
  \/ \E e \in Execs : ExecuteNewCall(e)
  \/ \E e \in Execs : ExecuteSend(e)
  \/ \E e \in Execs : ExecuteRecv(e)
  \/ Close(1)
  \/ \E i \in 1..Len(wire) : ReaderCompileResponse(i)
  \/ \E i \in 1..Len(wire) : ReaderCallback(i)
  \/ ReaderReply
  \/ ReaderReadError
  \/ ReaderProtocolError
  \/ ReaderSweep
  \/ ChildExit

\* The goroutines that exist keep running, as in Fairness; resolvers return, so
\* the reader gets to the reply it has to send.
NoDeadlineFairness ==
  /\ WF_vars(ReaderReadError \/ ReaderReply \/ ReaderSweep)
  /\ \A e \in Execs : WF_vars(ExecuteSend(e) \/ ExecuteRecv(e))

NoDeadlineSpec == Init /\ [][NoDeadlineNext]_vars /\ NoDeadlineFairness

\* ---------------------------------------------------------------- lock level
\* The same program with every Lock() and every conn.Write a step of its own:
\* t.mu and t.sendMu have holders, a task waits at a Lock() until the mutex is
\* free, and the child's stdin is the sequence of the writes made to it.

\* The places where the testing settings make an Execute panic.
PanicWhen == {"none", "NewCall", "SendInbound1", "SendInbound2"}

\* What an Execute is called with: the panics are tried on plain valid arguments.
LockArgsSet(e) ==
  {<<a, "none">> : a \in ArgsSet(e)}
    \cup {<<[valid |-> TRUE, resolver |-> NoResolver, source |-> e], w>> :
            w \in PanicWhen \ {"none"}}

\* A newCall that returns the validation error without t.mu.Unlock().
UnlockForgotten(holder) == holder

\* t.mu.Unlock() / t.sendMu.Unlock()
Unlock(holder) == NoTask

\* newCall's t.mu.Unlock() before it returns the error of createInbound.
newCallErrUnlock(holder) == Unlock(holder)

\* A sendInboundMessage that gives t.sendMu up after the prefix.
ReleasedBetweenWrites(holder) == NoTask

\* t.sendMu between the two writes: the unlock is deferred to the return.
HeldBetweenWrites(holder) == holder

\* A panic between t.mu.Lock() and t.mu.Unlock() in newCall: the unlock is not
\* deferred, the mutex stays with the task that panicked.
PanicInNewCall(holder) == holder

\* A panic in sendInboundMessage: the deferred t.sendMu.Unlock() runs.
PanicInSend(holder) == Unlock(holder)

\* A sendInboundMessage that takes t.mu before t.sendMu.
LockOrderReversed == <<"mu", "sendMu">>

\* The order in which sendInboundMessage, Close and the sweep take the two locks.
SendLockOrder == <<"sendMu", "mu">>
CloseLockOrder == <<"sendMu", "mu">>
SweepLockOrder == <<"sendMu", "mu">>

Holder(name) == IF name = "mu" THEN mu ELSE sendMu

\* name.Lock() by task t, which waited until the mutex was free.
Take(name, t) ==
  /\ Holder(name) = NoTask
  /\ IF name = "mu" THEN mu' = t /\ UNCHANGED sendMu
                    ELSE sendMu' = t /\ UNCHANGED mu

\* binary.PutUvarint: base 128, least significant group first, the high bit set on
\* every byte but the last.
RECURSIVE PutUvarint(_)
PutUvarint(n) ==
  IF n < 128 THEN <<n>> ELSE <<128 + (n % 128)>> \o PutUvarint(n \div 128)

\* binary.ReadUvarint, as the child decodes the prefix.
RECURSIVE ReadUvarint(_)
ReadUvarint(bs) ==
  IF Len(bs) = 0 THEN 0
  ELSE IF bs[1] < 128 THEN bs[1]
  ELSE (bs[1] - 128) + 128 * ReadUvarint(Tail(bs))

\* len(out): the byte length of the marshalled message.
Size(m) == 2 + m.body

\* t.conn.Write(t.lenBuf[:n])
LenChunk(t, m) == [writer |-> t, part |-> "len", bytes |-> PutUvarint(Size(m)), msg |-> NoMsg]

\* t.conn.Write(out)
PayloadChunk(t, m) == [writer |-> t, part |-> "payload", bytes |-> << >>, msg |-> m]

\* Where a sender is: an Execute in newCall, or the reader replying to a callback.
Loc(t) == IF t = Reader THEN rpc ELSE pc[t]

Senders == Execs \cup {Reader}

\* The message task t is sending.
Outgoing(t) ==
  IF t = Reader THEN rreply
  ELSE Msg("CompileRequest", calls[t].reqId, NoId,
           IF calls[t].importResolver # NoResolver THEN "importer" ELSE "plain",
           args[t].source)

Goto(t, loc) ==
  IF t = Reader
  THEN rpc' = loc /\ UNCHANGED <<pc, ret, rerr, rreply>>
  ELSE pc' = [pc EXCEPT ![t] = loc] /\ UNCHANGED <<rpc, ret, rerr, rreply>>

\* sendInboundMessage returns err to newCall (and so to Execute), or to the reader
\* loop.
SendReturn(t, err) ==
  IF t = Reader
  THEN /\ rpc' = IF err = ErrNil THEN "loop" ELSE "exited"
       /\ rerr' = IF err = ErrNil THEN rerr ELSE err
       /\ rreply' = NoMsg
       /\ UNCHANGED <<pc, ret>>
  ELSE /\ pc' = [pc EXCEPT ![t] = IF err = ErrNil THEN "wait" ELSE "done"]
       /\ ret' = IF err = ErrNil THEN ret ELSE [ret EXCEPT ![t] = RetErr(err)]
       /\ UNCHANGED <<rpc, rerr, rreply>>

\* Execute up to t.mu.Lock() in newCall.
LNewCallLock(e) ==
  /\ pc[e] = "idle"
  /\ \A d \in Execs : d < e => pc[d] # "idle"
  /\ rpc # "panic"
  /\ Take("mu", e)
  /\ pc' = [pc EXCEPT ![e] = "newCall"]
  /\ \E aw \in LockArgsSet(e) :
       /\ args' = [args EXCEPT ![e] = aw[1]]
       /\ panicWhen' = [panicWhen EXCEPT ![e] = aw[2]]
  /\ UNCHANGED <<closing, shutdown, seq, pending, calls, ret, hist, cpc, cret,
                 connClosed, rpc, rerr, rreply, wire, childUp, emitted, served, fault,
                 sweptClosing, stream>>
  /\ UNCHANGED unitVars

\* newCall's critical section, to the t.mu.Unlock() of the path taken; the id is
\* stamped into the request right after.
LNewCallBody(e) ==
  /\ pc[e] = "newCall"
  /\ rpc # "panic"
  /\ LET id == seq
         c == [NoCall EXCEPT !.made = TRUE, !.importResolver = args[e].resolver]
     IN
     IF panicWhen[e] = "NewCall"
     THEN /\ pc' = [pc EXCEPT ![e] = "panicked"]
          /\ mu' = PanicInNewCall(mu)
          /\ UNCHANGED <<calls, pending, seq, ret, hist>>
     ELSE IF ArgsInit(args[e]) # ErrNil
     THEN /\ pc' = [pc EXCEPT ![e] = "done"]
          /\ ret' = [ret EXCEPT ![e] = RetErr(ArgsInit(args[e]))]
          /\ mu' = newCallErrUnlock(mu)
          /\ UNCHANGED <<calls, pending, seq, hist>>
     ELSE IF newCallRejects(shutdown, closing)
     THEN LET r == RejectedCall(c) IN
          /\ calls' = [calls EXCEPT ![e] = [r EXCEPT !.Done = 0]]
          /\ pc' = [pc EXCEPT ![e] = "done"]
          /\ ret' = [ret EXCEPT ![e] = Convert(r)]
          /\ mu' = Unlock(mu)
          /\ UNCHANGED <<pending, seq, hist>>
     ELSE /\ calls' = [calls EXCEPT ![e] = [c EXCEPT !.reqId = StampId(id)]]
          /\ pending' = PendingPut(pending, id, e)
          /\ seq' = NextSeq(seq)
          /\ hist' = [hist EXCEPT ![e].key = id]
          /\ pc' = [pc EXCEPT ![e] = "send0"]
          /\ mu' = Unlock(mu)
          /\ UNCHANGED ret
  /\ UNCHANGED <<closing, shutdown, args, cpc, cret, connClosed, rpc, rerr, rreply,
                 wire, childUp, emitted, served, fault, sweptClosing, sendMu, stream,
                 panicWhen>>
  /\ UNCHANGED unitVars

\* sendInboundMessage: the first Lock().
LSendLock1(t) ==
  /\ Loc(t) = "send0"
  /\ rpc # "panic"
  /\ Take(SendLockOrder[1], t)
  /\ Goto(t, "send1")
  /\ UNCHANGED <<closing, shutdown, seq, pending, calls, args, hist, cpc, cret,
                 connClosed, wire, childUp, emitted, served, fault, sweptClosing,
                 stream, panicWhen>>
  /\ UNCHANGED unitVars

\* sendInboundMessage: the second Lock().
LSendLock2(t) ==
  /\ Loc(t) = "send1"
  /\ rpc # "panic"
  /\ Take(SendLockOrder[2], t)
  /\ Goto(t, "send2")
  /\ UNCHANGED <<closing, shutdown, seq, pending, calls, args, hist, cpc, cret,
                 connClosed, wire, childUp, emitted, served, fault, sweptClosing,
                 stream, panicWhen>>
  /\ UNCHANGED unitVars

\* sendInboundMessage: the test of closing and shutdown, and t.mu.Unlock().
LSendTest(t) ==
  /\ Loc(t) = "send2"
  /\ rpc # "panic"
  /\ mu' = Unlock(mu)
  /\ IF sendRejects(closing, shutdown)
     THEN sendMu' = Unlock(sendMu) /\ SendReturn(t, ErrShutdown)
     ELSE UNCHANGED sendMu /\ Goto(t, "send3")
  /\ UNCHANGED <<closing, shutdown, seq, pending, calls, args, hist, cpc, cret,
                 connClosed, wire, childUp, emitted, served, fault, sweptClosing,
                 stream, panicWhen>>
  /\ UNCHANGED unitVars

\* sendInboundMessage: the write of the length prefix.
LSendWriteLen(t) ==
  /\ Loc(t) = "send3"
  /\ rpc # "panic"
  /\ IF t \in Execs /\ panicWhen[t] = "SendInbound1"
     THEN /\ pc' = [pc EXCEPT ![t] = "panicked"]
          /\ sendMu' = PanicInSend(sendMu)
          /\ UNCHANGED <<rpc, ret, rerr, rreply, stream>>
     ELSE IF WriteResult(childUp, connClosed) = ErrNil
     THEN /\ stream' = Append(stream, LenChunk(t, Outgoing(t)))
          /\ Goto(t, "send4")
          /\ sendMu' = HeldBetweenWrites(sendMu)
     ELSE /\ sendMu' = Unlock(sendMu)
          /\ SendReturn(t, WriteResult(childUp, connClosed))
          /\ UNCHANGED stream
  /\ UNCHANGED <<closing, shutdown, seq, pending, calls, args, hist, cpc, cret,
                 connClosed, wire, childUp, emitted, served, fault, sweptClosing,
                 mu, panicWhen>>
  /\ UNCHANGED unitVars

\* sendInboundMessage: the write of the payload, and the return.
LSendWritePayload(t) ==
  /\ Loc(t) = "send4"
  /\ rpc # "panic"
  /\ IF WriteResult(childUp, connClosed) = ErrNil
     THEN /\ stream' = Append(stream, PayloadChunk(t, Outgoing(t)))
          /\ wire' = Append(wire, Outgoing(t))
          /\ IF t \in Execs /\ panicWhen[t] = "SendInbound2"
             THEN /\ pc' = [pc EXCEPT ![t] = "panicked"]
                  /\ sendMu' = PanicInSend(sendMu)
                  /\ UNCHANGED <<rpc, ret, rerr, rreply>>
             ELSE /\ sendMu' = Unlock(sendMu)
                  /\ SendReturn(t, ErrNil)
     ELSE /\ sendMu' = Unlock(sendMu)
          /\ SendReturn(t, PayloadResult(
                              PayloadWritten(childUp, connClosed, Size(Outgoing(t))),
                              Size(Outgoing(t)), WriteResult(childUp, connClosed)))
          /\ UNCHANGED <<stream, wire>>
  /\ UNCHANGED <<closing, shutdown, seq, pending, calls, args, hist, cpc, cret,
                 connClosed, childUp, emitted, served, fault, sweptClosing, mu,
                 panicWhen>>
  /\ UNCHANGED unitVars

\* The select of Execute, case call = <-call.Done.
LRecv(e) ==
  /\ pc[e] = "wait"
  /\ rpc # "panic"
  /\ calls[e].Done = 1
  /\ calls' = [calls EXCEPT ![e].Done = 0]
  /\ ret' = [ret EXCEPT ![e] = Convert(calls[e])]
  /\ pc' = [pc EXCEPT ![e] = "done"]
  /\ UNCHANGED <<closing, shutdown, seq, pending, args, hist, cpc, cret, connClosed,
                 rpc, rerr, rreply, wire, childUp, emitted, served, fault, sweptClosing>>
  /\ UNCHANGED lockVars
  /\ UNCHANGED unitVars

\* The select of Execute, case <-time.After(t.opts.Timeout).
LTimeout(e) ==
  /\ pc[e] = "wait"
  /\ rpc # "panic"
  /\ pc' = [pc EXCEPT ![e] = "done"]
  /\ ret' = [ret EXCEPT ![e] = RetErr(ErrTimeout)]
  /\ UNCHANGED <<closing, shutdown, seq, pending, calls, args, hist, cpc, cret, connClosed,
                 rpc, rerr, rreply, wire, childUp, emitted, served, fault, sweptClosing>>
  /\ UNCHANGED lockVars
  /\ UNCHANGED unitVars

\* Close: the first Lock().
LCloseLock1(k) ==
  /\ cpc[k] = "idle"
  /\ \A j \in Closers : j < k => cpc[j] # "idle"
  /\ rpc # "panic"
  /\ Take(CloseLockOrder[1], Closer(k))
  /\ cpc' = [cpc EXCEPT ![k] = "close1"]
  /\ UNCHANGED <<closing, shutdown, seq, pending, calls, pc, args, ret, hist, cret,
                 connClosed, rpc, rerr, rreply, wire, childUp, emitted, served, fault,
                 sweptClosing, stream, panicWhen>>
  /\ UNCHANGED unitVars

\* Close: the second Lock().
LCloseLock2(k) ==
  /\ cpc[k] = "close1"
  /\ rpc # "panic"
  /\ Take(CloseLockOrder[2], Closer(k))
  /\ cpc' = [cpc EXCEPT ![k] = "close2"]
  /\ UNCHANGED <<closing, shutdown, seq, pending, calls, pc, args, ret, hist, cret,
                 connClosed, rpc, rerr, rreply, wire, childUp, emitted, served, fault,
                 sweptClosing, stream, panicWhen>>
  /\ UNCHANGED unitVars

\* Close under both locks, and the two deferred unlocks.
LCloseBody(k) ==
  /\ cpc[k] = "close2"
  /\ rpc # "panic"
  /\ cpc' = [cpc EXCEPT ![k] = "done"]
  /\ IF CloseRejects(closing)
     THEN /\ cret' = [cret EXCEPT ![k] = ErrShutdown]
          /\ UNCHANGED <<closing, connClosed>>
     ELSE /\ closing' = TRUE
          /\ connClosed' = connClosed + 1
          /\ cret' = [cret EXCEPT ![k] = ConnClose(~childUp)]
  /\ mu' = Unlock(mu)
  /\ sendMu' = Unlock(sendMu)
  /\ UNCHANGED <<shutdown, seq, pending, calls, pc, args, ret, hist, rpc, rerr,
                 rreply, wire, childUp, emitted, served, fault, sweptClosing, stream,
                 panicWhen>>
  /\ UNCHANGED unitVars

\* The reader has read the compile response of compilation i: t.mu.Lock().
LReaderResponseLock(i) ==
  /\ rpc = "loop"
  /\ i \in Requests
  /\ ~Answered(i)
  /\ Take("mu", Reader)
  /\ rpc' = "resp"
  /\ \E k \in {"Success", "Failure"} :
       /\ rreply' = ResponseOf(i, k)
       /\ emitted' = emitted \cup {<<i, ResponseOf(i, k)>>}
  /\ UNCHANGED <<closing, shutdown, seq, pending, calls, pc, args, ret, hist, cpc, cret,
                 connClosed, rerr, wire, childUp, served, fault, sweptClosing, stream,
                 panicWhen>>
  /\ UNCHANGED unitVars

\* case *OutboundMessage_CompileResponse_: the critical section and what follows.
LReaderResponseBody ==
  /\ rpc = "resp"
  /\ LET h == PendingLookup(pending, rreply.id) IN
     /\ pending' = Remove(pending, rreply.id)
     /\ mu' = Unlock(mu)
     /\ IF h = NoHandle
        THEN /\ rerr' = ErrNotFound
             /\ rpc' = "exited"
             /\ UNCHANGED calls
        ELSE /\ calls' = [calls EXCEPT ![h] = done([@ EXCEPT !.Response = rreply])]
             /\ rpc' = "loop"
             /\ UNCHANGED rerr
  /\ rreply' = NoMsg
  /\ UNCHANGED <<closing, shutdown, seq, pc, args, ret, hist, cpc, cret, connClosed,
                 wire, childUp, emitted, served, fault, sweptClosing, sendMu, stream,
                 panicWhen>>
  /\ UNCHANGED unitVars

\* The reader has read a callback of compilation i: t.mu.Lock() in getCall.
LReaderGetCallLock(i) ==
  /\ rpc = "loop"
  /\ i \in Requests
  /\ wire[i].kind = "importer"
  /\ ~Answered(i)
  /\ ~Raised(i)
  /\ Take("mu", Reader)
  /\ rpc' = "getCall"
  /\ \E t \in {"CanonicalizeRequest", "ImportRequest"} : rreply' = CallbackOf(i, t)
  /\ served' = served \cup {[idx |-> i, cid |-> wire[i].id, resolver |-> NoResolver,
                             kind |-> "result"]}
  /\ UNCHANGED <<closing, shutdown, seq, pending, calls, pc, args, ret, hist, cpc, cret,
                 connClosed, rerr, wire, childUp, emitted, fault, sweptClosing, stream,
                 panicWhen>>
  /\ UNCHANGED unitVars

\* getCall's lookup and deferred unlock, the resolver, and the reply to send.
LReaderGetCallBody ==
  /\ rpc = "getCall"
  /\ mu' = Unlock(mu)
  /\ LET h == getCall(pending, rreply.cid) IN
     IF h = NoHandle \/ calls[h].importResolver = NoResolver
     THEN /\ rpc' = "panic"
          /\ UNCHANGED rreply
     ELSE /\ rpc' = "send0"
          /\ rreply' = Msg(ReplyType(rreply.type), rreply.id, NoId, "result",
                           ResolverContent(calls[h].importResolver))
  /\ UNCHANGED <<closing, shutdown, seq, pending, calls, pc, args, ret, hist, cpc, cret,
                 connClosed, rerr, wire, childUp, emitted, served, fault, sweptClosing,
                 sendMu, stream, panicWhen>>
  /\ UNCHANGED unitVars

\* "Terminate pending calls": the first Lock().
LSweepLock1 ==
  /\ rpc = "exited"
  /\ Take(SweepLockOrder[1], Reader)
  /\ rpc' = "sweep1"
  /\ UNCHANGED <<closing, shutdown, seq, pending, calls, pc, args, ret, hist, cpc, cret,
                 connClosed, rerr, rreply, wire, childUp, emitted, served, fault,
                 sweptClosing, stream, panicWhen>>
  /\ UNCHANGED unitVars

\* "Terminate pending calls": the second Lock().
LSweepLock2 ==
  /\ rpc = "sweep1"
  /\ Take(SweepLockOrder[2], Reader)
  /\ rpc' = "sweep2"
  /\ UNCHANGED <<closing, shutdown, seq, pending, calls, pc, args, ret, hist, cpc, cret,
                 connClosed, rerr, rreply, wire, childUp, emitted, served, fault,
                 sweptClosing, stream, panicWhen>>
  /\ UNCHANGED unitVars

\* The sweep under both locks, and the two deferred unlocks.
LSweepBody ==
  /\ rpc = "sweep2"
  /\ shutdown' = SweepShutdown(shutdown)
  /\ sweptClosing' = closing
  /\ LET err == Classify(rerr, closing)
         swept == {pending[id] : id \in DOMAIN pending}
     IN calls' = [h \in Execs |-> IF h \in swept THEN SweepCall(calls[h], err) ELSE calls[h]]
  /\ pending' = SweepPending(pending)
  /\ rpc' = "swept"
  /\ mu' = Unlock(mu)
  /\ sendMu' = Unlock(sendMu)
  /\ UNCHANGED <<closing, seq, pc, args, ret, hist, cpc, cret, connClosed, rerr,
                 rreply, wire, childUp, emitted, served, fault, stream, panicWhen>>
  /\ UNCHANGED unitVars

\* The child exits, as in ChildExit, whatever the reader is doing.
LChildExit ==
  /\ childUp
  /\ rpc \notin {"swept", "panic"}
  /\ childUp' = FALSE
  /\ fault' = (fault \/ connClosed = 0)
  /\ UNCHANGED <<closing, shutdown, seq, pending, calls, pc, args, ret, hist, cpc,
                 cret, connClosed, rpc, rerr, rreply, wire, emitted, served, sweptClosing>>
  /\ UNCHANGED lockVars
  /\ UNCHANGED unitVars

LockNext ==
  \/ \E e \in Execs : LNewCallLock(e)
  \/ \E e \in Execs : LNewCallBody(e)
  \/ \E t \in Senders : LSendLock1(t)
  \/ \E t \in Senders : LSendLock2(t)
  \/ \E t \in Senders : LSendTest(t)
  \/ \E t \in Senders : LSendWriteLen(t)
  \/ \E t \in Senders : LSendWritePayload(t)
  \/ \E e \in Execs : LRecv(e)
  \/ \E e \in Execs : LTimeout(e)
  \/ \E k \in Closers : LCloseLock1(k)
  \/ \E k \in Closers : LCloseLock2(k)
  \/ \E k \in Closers : LCloseBody(k)
  \/ \E i \in 1..Len(wire) : LReaderResponseLock(i)
  \/ LReaderResponseBody
  \/ \E i \in 1..Len(wire) : LReaderGetCallLock(i)
  \/ LReaderGetCallBody
  \/ ReaderReadError
  \/ ReaderProtocolError
  \/ LSweepLock1
  \/ LSweepLock2
  \/ LSweepBody
  \/ LChildExit

LockSpec == Init /\ [][LockNext]_vars

\* ---------------------------------------------------------------- the parsers
\* Strings are sequences of characters, so that letter case is something the
\* functions act on.
LowerAlpha == <<"a", "b", "c", "d", "e", "f", "g", "h", "i", "j", "k", "l", "m", "n", "o", "p", "q", "r", "s", "t", "u", "v", "w", "x", "y", "z">>
UpperAlpha == <<"A", "B", "C", "D", "E", "F", "G", "H", "I", "J", "K", "L", "M", "N", "O", "P", "Q", "R", "S", "T", "U", "V", "W", "X", "Y", "Z">>

IndexIn(alpha, c) == CHOOSE i \in 1..Len(alpha) : alpha[i] = c

UpperChar(c) ==
  IF \E i \in 1..Len(LowerAlpha) : LowerAlpha[i] = c
  THEN UpperAlpha[IndexIn(LowerAlpha, c)] ELSE c

LowerChar(c) ==
  IF \E i \in 1..Len(UpperAlpha) : UpperAlpha[i] = c
  THEN LowerAlpha[IndexIn(UpperAlpha, c)] ELSE c

\* strings.ToUpper, strings.ToLower
ToUpper(str) == [i \in 1..Len(str) |-> UpperChar(str[i])]
ToLower(str) == [i \in 1..Len(str) |-> LowerChar(str[i])]

OutputStyleNested == <<"N", "E", "S", "T", "E", "D">>
OutputStyleExpanded == <<"E", "X", "P", "A", "N", "D", "E", "D">>
OutputStyleCompact == <<"C", "O", "M", "P", "A", "C", "T">>
OutputStyleCompressed == <<"C", "O", "M", "P", "R", "E", "S", "S", "E", "D">>

SourceSyntaxSCSS == <<"S", "C", "S", "S">>
SourceSyntaxSASS == <<"I", "N", "D", "E", "N", "T", "E", "D">>
SourceSyntaxCSS == <<"C", "S", "S">>
SassWord == <<"S", "A", "S", "S">>

\* ParseOutputStyle
ParseOutputStyle(str) ==
  LET u == ToUpper(str) IN
  CASE u = OutputStyleNested -> OutputStyleNested
    [] u = OutputStyleCompact -> OutputStyleCompact
    [] u = OutputStyleCompressed -> OutputStyleCompressed
    [] u = OutputStyleExpanded -> OutputStyleExpanded
    [] OTHER -> OutputStyleNested

\* A ParseSourceSyntax that knows the value of SourceSyntaxSASS only, not "SASS".
ParseSourceSyntaxNoSass(str) ==
  LET u == ToUpper(str) IN
  CASE u = SourceSyntaxSCSS -> SourceSyntaxSCSS
    [] u = SourceSyntaxSASS -> SourceSyntaxSASS
    [] u = SourceSyntaxCSS -> SourceSyntaxCSS
    [] OTHER -> SourceSyntaxSCSS

\* ParseSourceSyntax
ParseSourceSyntax(str) ==
  LET u == ToUpper(str) IN
  CASE u = SourceSyntaxSCSS -> SourceSyntaxSCSS
    [] u = SourceSyntaxSASS \/ u = SassWord -> SourceSyntaxSASS
    [] u = SourceSyntaxCSS -> SourceSyntaxCSS
    [] OTHER -> SourceSyntaxSCSS

\* The words the inputs are made of: the names the two functions know, and
\* strings they do not know (the empty one, "foo", a name cut short, a name with a
\* letter too many, a name with a digit).
ParseWords ==
  {OutputStyleNested, OutputStyleExpanded, OutputStyleCompact, OutputStyleCompressed,
   SourceSyntaxSCSS, SourceSyntaxSASS, SourceSyntaxCSS, SassWord,
   << >>, <<"F", "O", "O">>, <<"N", "E", "S", "T", "E">>, <<"C", "S", "S", "S">>, <<"S", "A", "S", "5">>}

\* The word with the letters at the positions in low in lower case.
Cased(word, low) ==
  [i \in 1..Len(word) |-> IF i \in low THEN LowerChar(word[i]) ELSE word[i]]

\* Every word in upper case, in lower case, with one letter in lower case, with
\* all letters but one in lower case, and with every other letter in lower case.
ParseInputs ==
  UNION {{word, ToLower(word), Cased(word, {i \in 1..Len(word) : i % 2 = 0})}
           \cup {Cased(word, {i}) : i \in 1..Len(word)}
           \cup {Cased(word, (1..Len(word)) \ {i}) : i \in 1..Len(word)}
         : word \in ParseWords}

ParseInit ==
  /\ TranspilerInit /\ DoneIdle /\ ReaderIdle /\ ConnIdle /\ TailIdle /\ OptsIdle
  /\ pin \in ParseInputs
  /\ pout = NoParse

\* ParseOutputStyle(pin)
ParseStyleStep ==
  /\ pout = NoParse
  /\ pout' = [NoParse EXCEPT !.fn = "ParseOutputStyle", !.first = ParseOutputStyle(pin)]
  /\ UNCHANGED <<pin, coreVars, lockVars, doneVars, readerVars, connVars, tailVars, optsVars>>

\* ParseSourceSyntax(pin)
ParseSyntaxStep ==
  /\ pout = NoParse
  /\ pout' = [NoParse EXCEPT !.fn = "ParseSourceSyntax", !.first = ParseSourceSyntax(pin)]
  /\ UNCHANGED <<pin, coreVars, lockVars, doneVars, readerVars, connVars, tailVars, optsVars>>

\* The function applied to string(result) of its first application.
ParseAgainStep ==
  /\ pout.fn # "none"
  /\ ~pout.twice
  /\ pout' = [pout EXCEPT !.twice = TRUE,
                           !.again = IF pout.fn = "ParseOutputStyle"
                                     THEN ParseOutputStyle(pout.first)
                                     ELSE ParseSourceSyntax(pout.first)]
  /\ UNCHANGED <<pin, coreVars, lockVars, doneVars, readerVars, connVars, tailVars, optsVars>>

ParseNext == ParseStyleStep \/ ParseSyntaxStep \/ ParseAgainStep

ParseSpec == ParseInit /\ [][ParseNext]_vars

\* ---------------------------------------------------------------- tailBuffer
TailLimit == 3      \* tailBuffer.limit (1024 in newConn), scaled down
MaxWriteLen == 4    \* longest single write
MaxWritten == 6     \* writes are tried until this many bytes were written

\* The byte slices a write is tried with.
Chunks == UNION {[1..n -> {0, 1}] : n \in 0..MaxWriteLen}

\* tailBuffer.Write(p): what the buffer holds afterwards.
TailWrite(buf, p) == (IF Len(p) + Len(buf) > TailLimit THEN << >> ELSE buf) \o p

TailInit ==
  /\ TranspilerInit /\ DoneIdle /\ ReaderIdle /\ ConnIdle /\ OptsIdle /\ ParseIdle
  /\ tbuf = << >>
  /\ twritten = << >>

TailWriteStep(p) ==
  /\ Len(twritten) < MaxWritten
  /\ tbuf' = TailWrite(tbuf, p)
  /\ twritten' = twritten \o p
  /\ UNCHANGED <<coreVars, lockVars, doneVars, readerVars, connVars, optsVars, parseVars>>

TailNext == \E p \in Chunks : TailWriteStep(p)

TailSpec == TailInit /\ [][TailNext]_vars

\* ---------------------------------------------------------------- options
MaxPaths == 2       \* number of include paths
MaxPathLen == 3     \* length of an include path

\* The include paths tried: strings over a letter, the separator and the dot.
Paths == UNION {[1..n -> {"a", "/", "."}] : n \in 0..MaxPathLen}

\* The elements of a path between its separators.
RECURSIVE SplitPath(_)
SplitPath(str) ==
  IF str = << >> THEN << << >> >>
  ELSE LET rest == SplitPath(Tail(str)) IN
       IF Head(str) = "/" THEN << << >> >> \o rest
       ELSE << <<Head(str)>> \o Head(rest) >> \o Tail(rest)

\* filepath.Clean's pass over the elements: empty and "." elements go, ".." takes
\* the element before it away, or stays when there is none and the path is not
\* rooted.
RECURSIVE CleanElems(_, _, _)
CleanElems(el, st, rooted) ==
  IF el = << >> THEN st
  ELSE LET e == Head(el) IN
       IF e = << >> \/ e = <<".">> THEN CleanElems(Tail(el), st, rooted)
       ELSE IF e = <<".", ".">>
       THEN IF st # << >> /\ st[Len(st)] # <<".", ".">>
            THEN CleanElems(Tail(el), SubSeq(st, 1, Len(st) - 1), rooted)
            ELSE IF rooted THEN CleanElems(Tail(el), st, rooted)
                 ELSE CleanElems(Tail(el), Append(st, e), rooted)
       ELSE CleanElems(Tail(el), Append(st, e), rooted)

RECURSIVE JoinPath(_)
JoinPath(st) ==
  IF st = << >> THEN << >>
  ELSE IF Len(st) = 1 THEN st[1] ELSE st[1] \o <<"/">> \o JoinPath(Tail(st))

\* filepath.Clean
Clean(path) ==
  LET rooted == path # << >> /\ path[1] = "/"
      out == (IF rooted THEN <<"/">> ELSE << >>)
               \o JoinPath(CleanElems(SplitPath(path), << >>, rooted))
  IN IF out = << >> THEN <<".">> ELSE out

IdImporter == [kind |-> "ImporterId", path |-> << >>]
PathImporter(path) == [kind |-> "Path", path |-> path]

\* An init that appends the host-callback importer after the include paths.
sassImportersPathsFirst(resolver, paths) ==
  [k \in 1..Len(paths) |-> PathImporter(Clean(paths[k]))]
    \o (IF resolver THEN <<IdImporter>> ELSE << >>)

\* transpilerOptions.init: opts.sassImporters.
sassImporters(resolver, paths) ==
  (IF resolver THEN <<IdImporter>> ELSE << >>)
    \o [k \in 1..Len(paths) |-> PathImporter(Clean(paths[k]))]

OptsInit ==
  /\ TranspilerInit /\ DoneIdle /\ ReaderIdle /\ ConnIdle /\ TailIdle /\ ParseIdle
  /\ oin \in [resolver : BOOLEAN,
              paths : UNION {[1..n -> Paths] : n \in 0..MaxPaths},
              inited : {FALSE}]
  /\ oimporters = << >>

\* opts.init(), called once by Start.
OptsInitStep ==
  /\ ~oin.inited
  /\ oin' = [oin EXCEPT !.inited = TRUE]
  /\ oimporters' = sassImporters(oin.resolver, oin.paths)
  /\ UNCHANGED <<coreVars, lockVars, doneVars, readerVars, connVars, tailVars, parseVars>>

OptsNext == OptsInitStep

OptsSpec == OptsInit /\ [][OptsNext]_vars

\* ---------------------------------------------------------------- conn
MaxTail == 2        \* number of messages in the captured stderr tail

ErrWriterClose == "close |1: file already closed"
ErrReaderClose == "close |0: file already closed"
ErrExit == "exit status 64"
ErrWait == "exec: Wait was already called"
ErrWaitTimeout == "timed out waiting for dart-sass-embedded to finish"

\* What the child may have left on stderr, message by message.
StderrMessages == {"Broken pipe", "pipe is being closed", "broken pipe", "Unhandled exception"}

\* brokenPipeRe.MatchString: "Broken pipe|pipe is being closed" occurs in the text.
brokenPipeRe(tail) ==
  \E i \in 1..Len(tail) : tail[i] \in {"Broken pipe", "pipe is being closed"}

\* A wait that returns the exit error whatever stderr says.
waitWithTimeoutNoSuppress(exit, tail) ==
  CASE exit = "hung" -> ErrWaitTimeout
    [] exit = "zero" -> ErrNil
    [] exit = "nonzero" -> ErrExit
    [] OTHER -> ErrWait

\* conn.waitWithTimeout; exit is what cmd.Wait() has to say within the second:
\* exit status zero, an *exec.ExitError, another error, or nothing yet.
waitWithTimeout(exit, tail) ==
  CASE exit = "hung" -> ErrWaitTimeout
    [] exit = "zero" -> ErrNil
    [] exit = "nonzero" -> IF brokenPipeRe(tail) THEN ErrNil ELSE ErrExit
    [] OTHER -> ErrWait

\* A Close that reports the reader's error before the writer's.
CloseResultReaderFirst(writeErr, readErr, cmdErr) ==
  IF readErr # ErrNil THEN readErr
  ELSE IF writeErr # ErrNil THEN writeErr ELSE cmdErr

\* conn.Close: what it returns.
CloseResult(writeErr, readErr, cmdErr) ==
  IF writeErr # ErrNil THEN writeErr
  ELSE IF readErr # ErrNil THEN readErr ELSE cmdErr

ConnInit ==
  /\ TranspilerInit /\ DoneIdle /\ ReaderIdle /\ TailIdle /\ OptsIdle /\ ParseIdle
  /\ cio \in [writeErr : {ErrNil, ErrWriterClose},
              readErr : {ErrNil, ErrReaderClose},
              exit : {"zero", "nonzero", "other", "hung"},
              tail : UNION {[1..n -> StderrMessages] : n \in 0..MaxTail}]
  /\ cstep = << >>
  /\ cout = "none"

\* writeErr := c.WriteCloser.Close()
CloseWriter ==
  /\ Len(cstep) = 0
  /\ cstep' = Append(cstep, [step |-> "closeWriter", err |-> cio.writeErr])
  /\ UNCHANGED <<cio, cout, coreVars, lockVars, doneVars, readerVars, tailVars, optsVars, parseVars>>

\* readErr := c.ReadCloser.Close()
CloseReader ==
  /\ Len(cstep) = 1
  /\ cstep' = Append(cstep, [step |-> "closeReader", err |-> cio.readErr])
  /\ UNCHANGED <<cio, cout, coreVars, lockVars, doneVars, readerVars, tailVars, optsVars, parseVars>>

\* cmdErr := c.waitWithTimeout()
CloseWait ==
  /\ Len(cstep) = 2
  /\ cstep' = Append(cstep, [step |-> "wait", err |-> waitWithTimeout(cio.exit, cio.tail)])
  /\ UNCHANGED <<cio, cout, coreVars, lockVars, doneVars, readerVars, tailVars, optsVars, parseVars>>

\* The three tests and the return.
CloseReturn ==
  /\ Len(cstep) = 3
  /\ cout = "none"
  /\ cout' = CloseResult(cstep[1].err, cstep[2].err, cstep[3].err)
  /\ UNCHANGED <<cio, cstep, coreVars, lockVars, doneVars, readerVars, tailVars, optsVars, parseVars>>

ConnNext == CloseWriter \/ CloseReader \/ CloseWait \/ CloseReturn

ConnSpec == ConnInit /\ [][ConnNext]_vars

\* ---------------------------------------------------------------- urls
IsLetter(c) ==
  \/ \E i \in 1..Len(LowerAlpha) : LowerAlpha[i] = c
  \/ \E i \in 1..Len(UpperAlpha) : UpperAlpha[i] = c

IsDigit(c) == c \in {"0", "1", "2", "3", "4", "5", "6", "7", "8", "9"}

\* url.getScheme from position i on: the scheme ends at the first colon; a first
\* character that is no letter, or a character that cannot be in a scheme, means
\* there is none; a colon in front is an error.
RECURSIVE getScheme(_, _)
getScheme(str, i) ==
  IF i > Len(str) THEN [err |-> FALSE, scheme |-> << >>, rest |-> str]
  ELSE IF IsLetter(str[i]) THEN getScheme(str, i + 1)
  ELSE IF IsDigit(str[i]) \/ str[i] \in {"+", "-", "."}
  THEN IF i = 1 THEN [err |-> FALSE, scheme |-> << >>, rest |-> str]
       ELSE getScheme(str, i + 1)
  ELSE IF str[i] = ":"
  THEN IF i = 1 THEN [err |-> TRUE, scheme |-> << >>, rest |-> << >>]
       ELSE [err |-> FALSE, scheme |-> SubSeq(str, 1, i - 1),
             rest |-> SubSeq(str, i + 1, Len(str))]
  ELSE [err |-> FALSE, scheme |-> << >>, rest |-> str]

\* The authority of "//authority/path" is well formed: what follows its last
\* colon, if it has one, is a port number.
validAuthority(rest) ==
  LET after == SubSeq(rest, 3, Len(rest))
      stop == IF \E i \in 1..Len(after) : after[i] = "/"
              THEN (CHOOSE i \in 1..Len(after) :
                      after[i] = "/" /\ \A j \in 1..(i - 1) : after[j] # "/") - 1
              ELSE Len(after)
      auth == SubSeq(after, 1, stop)
      colons == {i \in 1..Len(auth) : auth[i] = ":"}
  IN colons = {} \/
     LET last == CHOOSE i \in colons : \A j \in colons : j <= i
     IN \A j \in (last + 1)..Len(auth) : IsDigit(auth[j])

\* url.ParseRequestURI succeeds.
ParseRequestURIOk(str) ==
  /\ str # << >>
  /\ LET g == getScheme(str, 1) IN
     /\ ~g.err
     /\ IF Len(g.rest) = 0 \/ g.rest[1] # "/"
        THEN g.scheme # << >>
        ELSE (g.scheme # << >> /\ Len(g.rest) >= 2 /\ g.rest[2] = "/")
               => validAuthority(g.rest)

\* A hasScheme that takes everything before a colon for a scheme.
hasSchemeAnyColon(str) == \E i \in 2..Len(str) : str[i] = ":"

\* hasScheme
hasScheme(str) == ParseRequestURIOk(str) /\ getScheme(str, 1).scheme # << >>

\* ---------------------------------------------------------------- callbacks and log events
MaxFrames == 2      \* callback requests and log events the compiler sends

\* The urls of the callback requests: with a scheme, with a scheme and an
\* authority, with digits before the colon, with no colon.
CbUrls == {<<"f", ":", "o">>, <<"h", ":", "/", "/", "o">>, <<"1", ":", "o">>, <<"o">>}

\* The urls of the canonicalize requests.
CanonUrls == {<<"o">>, <<"f", ":", "o">>}

ResolveErrText == <<"n", "o", "t", " ", "f", "o", "u", "n", "d">>

\* What ImportResolver.CanonicalizeURL(url) may return: an error, the empty
\* string, a canonical url.
CanonicalizeResults(url) ==
  {[failed |-> TRUE, url |-> << >>], [failed |-> FALSE, url |-> << >>],
   [failed |-> FALSE, url |-> <<"f", ":", "/">> \o url]}

\* What ImportResolver.Load(url) of resolver r may return: an error, or content
\* with its syntax.
LoadResults(r) ==
  {[failed |-> TRUE, content |-> 0, syntax |-> "SCSS"],
   [failed |-> FALSE, content |-> ResolverContent(r), syntax |-> "INDENTED"]}

\* A response that hands the resolver's empty string on as a url.
canonicalizeResponseEmptyUrl(id, res) ==
  IF res.failed THEN Msg("CanonicalizeResponse", id, NoId, "error", ResolveErrText)
  ELSE Msg("CanonicalizeResponse", id, NoId, "url", res.url)

\* The InboundMessage_CanonicalizeResponse for request id.
canonicalizeResponse(id, res) ==
  IF res.failed THEN Msg("CanonicalizeResponse", id, NoId, "error", ResolveErrText)
  ELSE IF res.url # << >> THEN Msg("CanonicalizeResponse", id, NoId, "url", res.url)
  ELSE Msg("CanonicalizeResponse", id, NoId, "absent", << >>)

\* The source-map url of an import response, with the test for a scheme given.
sourceMapURLBy(scheme, url) == IF scheme THEN url ELSE << >>

\* A response whose Id is left unset.
importResponseNoId(id, url, res) ==
  IF res.failed THEN Msg("ImportResponse", 0, NoId, "error", ResolveErrText)
  ELSE Msg("ImportResponse", 0, NoId, "success",
           [contents |-> res.content, syntax |-> res.syntax,
            sourceMapUrl |-> sourceMapURLBy(hasScheme(url), url)])

\* The InboundMessage_ImportResponse for request id of url.
importResponse(id, url, res) ==
  IF res.failed THEN Msg("ImportResponse", id, NoId, "error", ResolveErrText)
  ELSE Msg("ImportResponse", id, NoId, "success",
           [contents |-> res.content, syntax |-> res.syntax,
            sourceMapUrl |-> sourceMapURLBy(hasScheme(url), url)])

\* The value of a hexadecimal digit, -1 for another character.
unhex(c) ==
  CASE c = "0" -> 0 [] c = "1" -> 1 [] c = "2" -> 2 [] c = "3" -> 3 [] c = "4" -> 4
    [] c = "5" -> 5 [] c = "6" -> 6 [] c = "7" -> 7 [] c = "8" -> 8 [] c = "9" -> 9
    [] c \in {"a", "A"} -> 10 [] c \in {"b", "B"} -> 11 [] c \in {"c", "C"} -> 12
    [] c \in {"d", "D"} -> 13 [] c \in {"e", "E"} -> 14 [] c \in {"f", "F"} -> 15
    [] OTHER -> -1

\* The character of a byte: the letters, and the byte itself otherwise.
ByteChar(b) ==
  IF b >= 65 /\ b <= 90 THEN UpperAlpha[b - 64]
  ELSE IF b >= 97 /\ b <= 122 THEN LowerAlpha[b - 96]
  ELSE IF b = 32 THEN " " ELSE <<"byte", b>>

\* url.QueryUnescape: "+" is a space, "%XX" the byte XX; ok is false when a "%" is
\* not followed by two hexadecimal digits.
RECURSIVE QueryUnescape(_)
QueryUnescape(str) ==
  IF str = << >> THEN [ok |-> TRUE, out |-> << >>]
  ELSE IF Head(str) = "%"
  THEN IF Len(str) < 3 \/ unhex(str[2]) < 0 \/ unhex(str[3]) < 0
       THEN [ok |-> FALSE, out |-> << >>]
       ELSE LET r == QueryUnescape(SubSeq(str, 4, Len(str))) IN
            [ok |-> r.ok, out |-> <<ByteChar(16 * unhex(str[2]) + unhex(str[3]))>> \o r.out]
  ELSE LET r == QueryUnescape(Tail(str)) IN
       [ok |-> r.ok, out |-> <<IF Head(str) = "+" THEN " " ELSE Head(str)>> \o r.out]

\* %d
RECURSIVE Decimal(_)
Decimal(n) ==
  IF n < 10 THEN << (<<"0", "1", "2", "3", "4", "5", "6", "7", "8", "9">>)[n + 1] >>
  ELSE Decimal(n \div 10) \o Decimal(n % 10)

Stdin == <<"s", "t", "d", "i", "n">>

\* A formatting that prints the span's url as it came.
LogMessageRaw(ev) ==
  IF ev.span
  THEN ev.url \o <<":">> \o Decimal(ev.line) \o <<":">> \o Decimal(ev.column)
         \o <<":", " ">> \o ev.message
  ELSE ev.message

\* LogEvent.Message as input() makes it.
LogMessage(ev) ==
  IF ev.span
  THEN LET esc == QueryUnescape(IF ev.url = << >> THEN Stdin ELSE ev.url)
           u == IF esc.ok THEN esc.out ELSE << >>
       IN u \o <<":">> \o Decimal(ev.line) \o <<":">> \o Decimal(ev.column)
            \o <<":", " ">> \o ev.message
  ELSE ev.message

\* The log events the compiler sends: without a span, and with a span whose
\* url is empty, plain, escaped, or wrongly escaped.
LogEvents ==
  {[type |-> "WARNING", span |-> FALSE, url |-> << >>, line |-> 0, column |-> 0,
    message |-> <<"m">>]}
    \cup {[type |-> "DEBUG", span |-> TRUE, url |-> u, line |-> 1, column |-> 12,
           message |-> <<"m">>] :
            u \in {<< >>, <<"a">>, <<"a", "+", "%", "4", "1">>, <<"%", "z">>}}

\* A Transpiler started with or without a LogEventHandler.
LogInit ==
  /\ TranspilerInit /\ DoneIdle /\ ConnIdle /\ TailIdle /\ OptsIdle /\ ParseIdle
  /\ sent = << >>
  /\ logged = << >>
  /\ logHandler \in BOOLEAN

\* The ids the compiler gives its callback requests: one after the other.
NextCallbackId == Cardinality({k \in 1..Len(sent) : sent[k].type # "LogEvent"})

\* The reader reads a callback request of compilation i for url, the resolver
\* answers res: up to the call of sendInboundMessage.
ReadCallback(i, type, url, res, reply) ==
  /\ rpc = "loop"
  /\ Len(sent) < MaxFrames
  /\ i \in Requests
  /\ wire[i].kind = "importer"
  /\ ~Answered(i)
  /\ LET h == getCall(pending, wire[i].id) IN
     IF h = NoHandle \/ calls[h].importResolver = NoResolver
     THEN /\ rpc' = "panic"
          /\ UNCHANGED <<rreply, sent>>
     ELSE /\ rpc' = "reply"
          /\ rreply' = reply
          /\ sent' = Append(sent, [type |-> type, id |-> NextCallbackId,
                                   cid |-> wire[i].id, url |-> url, res |-> res])
  /\ UNCHANGED <<closing, shutdown, seq, pending, calls, pc, args, ret, hist, cpc,
                 cret, connClosed, rerr, wire, childUp, emitted, served, fault,
                 sweptClosing, logged, logHandler>>
  /\ UNCHANGED <<lockVars, doneVars, connVars, tailVars, optsVars, parseVars>>

\* case *OutboundMessage_CanonicalizeRequest_
ReadCanonicalize(i) ==
  \E url \in CanonUrls : \E res \in CanonicalizeResults(url) :
    ReadCallback(i, "CanonicalizeRequest", url, res,
                 canonicalizeResponse(NextCallbackId, res))

\* case *OutboundMessage_ImportRequest_
ReadImport(i) ==
  /\ i \in Requests
  /\ LET h == getCall(pending, wire[i].id)
         r == IF h = NoHandle THEN NoResolver ELSE calls[h].importResolver
     IN \E url \in CbUrls : \E res \in LoadResults(r) :
          ReadCallback(i, "ImportRequest", url, res,
                       importResponse(NextCallbackId, url, res))

\* case *OutboundMessage_LogEvent_, for a log event of compilation i; late tells
\* whether the Execute of that compilation had returned its response already.
ReadLogEvent(i) ==
  /\ rpc = "loop"
  /\ Len(sent) < MaxFrames
  /\ i \in Requests
  /\ ~Answered(i)
  /\ \E ev \in LogEvents :
       /\ sent' = Append(sent, [type |-> "LogEvent", id |-> NoId, cid |-> wire[i].id,
                                ev |-> ev,
                                late |-> \E e \in Execs :
                                           /\ calls[e].reqId = wire[i].id
                                           /\ pc[e] = "done"
                                           /\ calls[e].Response # NoMsg])
       /\ logged' = IF logHandler
                    THEN Append(logged, [Type |-> ev.type, Message |-> LogMessage(ev)])
                    ELSE logged
  /\ UNCHANGED <<coreVars, logHandler, lockVars, doneVars, connVars, tailVars, optsVars, parseVars>>

\* The Transpiler with a compiler that sends callback requests.
CallbackNext ==
  \/ \E e \in Execs : ExecuteNewCall(e)
  \/ \E e \in Execs : ExecuteSend(e)
  \/ \E e \in Execs : ExecuteRecv(e)
  \/ Close(1)
  \/ \E i \in 1..Len(wire) : ReaderCompileResponse(i)
  \/ \E i \in 1..Len(wire) : ReadCanonicalize(i)
  \/ \E i \in 1..Len(wire) : ReadImport(i)
  \/ ReaderReply

CallbackSpec == Init /\ [][CallbackNext]_vars

\* The Transpiler with a compiler that sends log events.
LogNext ==
  \/ \E e \in Execs : ExecuteNewCall(e)
  \/ \E e \in Execs : ExecuteSend(e)
  \/ \E e \in Execs : ExecuteRecv(e)
  \/ \E e \in Execs : ExecuteTimeout(e)
  \/ Close(1)
  \/ \E i \in 1..Len(wire) : ReaderCompileResponse(i)
  \/ \E i \in 1..Len(wire) : ReadLogEvent(i)

LogSpec == LogInit /\ [][LogNext]_vars

\* ---------------------------------------------------------------- call.done
\* One call, the caller that made it and the goroutines that complete it, each
\* invocation of done() in two steps: the completer sets the field it has for the
\* call and enters done(), then the select of done() runs.
MaxDone == 3        \* invocations of done() on the one call

\* Done: make(chan *call, 1)
ChanCap == 1

\* The completers: the reader's CompileResponse case and the sweep, and newCall
\* refusing a call.
Completers == {"response", "sweep", "newCall"}

\* What a completer stores in the call before it calls done().
Completion(w, c) ==
  CASE w = "response" -> [c EXCEPT !.Response = Msg("CompileResponse", 0, NoId, "Success", 0)]
    [] w = "sweep" -> [c EXCEPT !.Error = ErrUnexpectedEOF]
    [] OTHER -> [c EXCEPT !.Error = ErrShutdown]

\* case call.Done <- call: the send can proceed, there is room in the channel.
SendReady(c) == c.Done < ChanCap

\* A done() whose select has no default case.
doneReadyNoDefault(c) == SendReady(c)

\* The select of done() can proceed: it has a default case.
doneReady(c) == SendReady(c) \/ TRUE

DoneInit ==
  /\ TranspilerInit /\ ReaderIdle /\ ConnIdle /\ TailIdle /\ OptsIdle /\ ParseIdle
  /\ dcall = [NoCall EXCEPT !.made = TRUE]
  /\ dpc = [w \in Completers |-> "idle"]
  /\ dwait \in {"before", "select"}
  /\ dgot = 0

\* A completer sets its field and calls done().
DoneCall(w) ==
  /\ dpc[w] = "idle"
  /\ dcall.completions + Cardinality({v \in Completers : dpc[v] = "done()"}) < MaxDone
  /\ dcall' = Completion(w, dcall)
  /\ dpc' = [dpc EXCEPT ![w] = "done()"]
  /\ UNCHANGED <<dwait, dgot>>
  /\ UNCHANGED <<coreVars, lockVars, readerVars, connVars, tailVars, optsVars, parseVars>>

\* The select of done(), and its return.
DoneReturn(w) ==
  /\ dpc[w] = "done()"
  /\ doneReady(dcall)
  /\ dcall' = done(dcall)
  /\ dpc' = [dpc EXCEPT ![w] = "idle"]
  /\ UNCHANGED <<dwait, dgot>>
  /\ UNCHANGED <<coreVars, lockVars, readerVars, connVars, tailVars, optsVars, parseVars>>

\* The caller reaches the select of Execute.
CallerSelect ==
  /\ dwait = "before"
  /\ dwait' = "select"
  /\ UNCHANGED <<dcall, dpc, dgot>>
  /\ UNCHANGED <<coreVars, lockVars, readerVars, connVars, tailVars, optsVars, parseVars>>

\* case call = <-call.Done
CallerRecv ==
  /\ dwait = "select"
  /\ dcall.Done > 0
  /\ dcall' = [dcall EXCEPT !.Done = @ - 1]
  /\ dwait' = "received"
  /\ dgot' = dgot + 1
  /\ UNCHANGED dpc
  /\ UNCHANGED <<coreVars, lockVars, readerVars, connVars, tailVars, optsVars, parseVars>>

\* case <-time.After(t.opts.Timeout): the caller gives the wait up.
CallerTimeout ==
  /\ dwait = "select"
  /\ dwait' = "abandoned"
  /\ UNCHANGED <<dcall, dpc, dgot>>
  /\ UNCHANGED <<coreVars, lockVars, readerVars, connVars, tailVars, optsVars, parseVars>>

DoneNext ==
  \/ \E w \in Completers : DoneCall(w)
  \/ \E w \in Completers : DoneReturn(w)
  \/ CallerSelect
  \/ CallerRecv
  \/ CallerTimeout

DoneSpec == DoneInit /\ [][DoneNext]_vars

\* ---------------------------------------------------------------- blocking writes
\* The lock-level program with no panics, one Close, and a child that may stop
\* reading its stdin: a conn.Write then stays where it is.
BlockingNext ==
  \/ \E e \in Execs : LNewCallLock(e) /\ panicWhen'[e] = "none"
  \/ \E e \in Execs : LNewCallBody(e)
  \/ \E t \in Senders : LSendLock1(t)
  \/ \E t \in Senders : LSendLock2(t)
  \/ \E t \in Senders : LSendTest(t)
  \/ \E t \in Senders : LSendWriteLen(t)
  \/ \E t \in Senders : LSendWritePayload(t)
  \/ \E e \in Execs : LRecv(e)
  \/ \E e \in Execs : LTimeout(e)
  \/ LCloseLock1(1)
  \/ LCloseLock2(1)
  \/ LCloseBody(1)
  \/ \E i \in 1..Len(wire) : LReaderResponseLock(i)
  \/ LReaderResponseBody
  \/ \E i \in 1..Len(wire) : LReaderGetCallLock(i)
  \/ LReaderGetCallBody
  \/ ReaderReadError
  \/ LSweepLock1
  \/ LSweepLock2
  \/ LSweepBody
  \/ LChildExit

\* Every goroutine that can take a step takes it: a Lock() on a free mutex
\* returns, a critical section runs to its Unlock(), the selects of Execute
\* return, conn.Close returns (its wait is bounded), and Close is invoked.  Only
\* the two conn.Write calls have no such guarantee: they return when the child
\* reads, or when the pipe is closed.
BlockingFairness ==
  /\ \A e \in Execs : WF_vars(LNewCallBody(e) \/ LRecv(e) \/ LTimeout(e))
  /\ \A t \in Senders : WF_vars(LSendLock1(t) \/ LSendLock2(t) \/ LSendTest(t))
  /\ WF_vars(LCloseLock1(1) \/ LCloseLock2(1) \/ LCloseBody(1))
  /\ WF_vars(LReaderResponseBody \/ LReaderGetCallBody \/ ReaderReadError
               \/ LSweepLock1 \/ LSweepLock2 \/ LSweepBody)

BlockingSpec == Init /\ [][BlockingNext]_vars /\ BlockingFairness

\* ---------------------------------------------------------------- garbage callbacks
\* The compilation ids a callback request should not name: one whose compile
\* response was sent, one of a compilation registered without a resolver, and one
\* no request carried.
GarbageIds ==
  {wire[i].id : i \in {j \in Requests : Answered(j) \/ wire[j].kind = "plain"}}
    \cup {seq}

\* case *OutboundMessage_CanonicalizeRequest_ / *OutboundMessage_ImportRequest_
\* for a compilation id the compiler should not name: getCall panics when the id
\* is not in pending, and the call of the resolver panics on the nil interface;
\* nothing in input() recovers, the goroutine is gone and the sweep does not run.
ReaderGarbageCallback(cid) ==
  /\ rpc = "loop"
  /\ childUp
  /\ connClosed = 0
  /\ cid \in GarbageIds
  /\ \E t \in {"CanonicalizeRequest", "ImportRequest"} :
       LET h == getCall(pending, cid) IN
       IF h = NoHandle \/ calls[h].importResolver = NoResolver
       THEN /\ rpc' = "panic"
            /\ UNCHANGED rreply
       ELSE /\ rpc' = "reply"
            /\ rreply' = Msg(ReplyType(t), CallbackId(0), NoId, "result",
                             ResolverContent(calls[h].importResolver))
  /\ fault' = TRUE
  /\ UNCHANGED <<closing, shutdown, seq, pending, calls, pc, args, ret, hist, cpc,
                 cret, connClosed, rerr, wire, childUp, emitted, served, sweptClosing>>
  /\ UNCHANGED lockVars
  /\ UNCHANGED unitVars

GarbageNext ==
  \/ \E e \in Execs : ExecuteNewCall(e)
  \/ \E e \in Execs : ExecuteSend(e)
  \/ \E e \in Execs : ExecuteRecv(e)
  \/ \E e \in Execs : ExecuteTimeout(e)
  \/ Close(1)
  \/ \E i \in 1..Len(wire) : ReaderCompileResponse(i)
  \/ \E i \in 1..Len(wire) : ReaderCallback(i)
  \/ ReaderReply
  \/ \E cid \in 0..MaxExec : ReaderGarbageCallback(cid)
  \/ ReaderReadError
  \/ ReaderSweep
  \/ ChildExit

GarbageSpec == Init /\ [][GarbageNext]_vars

\* IsShutDown(): every call in pending has Error == ErrShutdown.
IsShutDown == \A id \in DOMAIN pending : calls[pending[id]].Error = ErrShutdown

\* ---------------------------------------------------------------- properties
Done(e) == pc[e] = "done"

Registered(e) == hist[e].key # NoId

InPending(e) == \E id \in DOMAIN pending : pending[id] = e

\* The Execute returned what the compiler answered to its own request.
OwnResult(e) ==
  /\ calls[e].Response # NoMsg
  /\ calls[e].Response.id = calls[e].reqId
  /\ calls[e].Response.body = CssOf(args[e].source)
  /\ \/ ret[e] = RetOk(CssOf(args[e].source))
     \/ calls[e].Response.kind = "Failure" /\ ret[e] = RetErr("SassError")

\* C1: an Execute that returns a result returns the css of the compile response
\* whose id is the id stamped into its own request, which is the key its call was
\* stored under; a response is attached only to the call of the request it answers.
IdRoutingExact ==
  \A e \in Execs :
    /\ calls[e].Response # NoMsg =>
         /\ calls[e].reqId = hist[e].key
         /\ calls[e].Response.id = calls[e].reqId
         /\ \E m \in emitted : m[2] = calls[e].Response /\ wire[m[1]].body = args[e].source
    /\ ret[e].kind = "ok" =>
         /\ ret[e].css = calls[e].Response.body
         /\ ret[e].css = CssOf(args[e].source)

\* Two Executes were in flight together, the later one was answered first, and
\* both returned a result.
IdRoutingWitness ==
  /\ ret[1].kind = "ok"
  /\ ret[2].kind = "ok"
  /\ hist[1].key = 0
  /\ hist[2].key = 1
  /\ \E m, n \in emitted : m[1] = 1 /\ n[1] = 2 /\ m[2].id = 1 /\ n[2].id = 0

\* C2: a callback that names compilation X is served by the resolver passed to
\* the Execute registered under X, and while the reader handles it the record of
\* X stays in pending, unchanged.
ResolverRouting ==
  /\ \A s \in served :
       \E e \in Execs : /\ hist[e].key = s.cid
                        /\ s.resolver # NoResolver
                        /\ s.resolver = args[e].resolver
  /\ rpc = "reply" =>
       \E s \in served :
         /\ CallbackId(s.idx) = rreply.id
         /\ s.cid \in DOMAIN pending
         /\ hist[pending[s.cid]].key = s.cid
         /\ args[pending[s.cid]].resolver = s.resolver
         /\ rreply.body = ResolverContent(args[pending[s.cid]].resolver)

\* The reader is serving a callback of the second of two Executes in flight, each
\* with its own resolver.
ResolverRoutingWitness ==
  /\ rpc = "reply"
  /\ DOMAIN pending = {0, 1}
  /\ args[1].resolver = 1
  /\ args[2].resolver = 2
  /\ rreply.body = ResolverContent(2)

\* C3: an Execute that reaches newCall's admission test with closing or shutdown
\* set inserts nothing into pending, leaves the id counter alone, writes nothing
\* to the child and returns ErrShutdown.
NoAdmissionOnceClosing ==
  [][\A e \in Execs :
       (pc[e] = "idle" /\ pc'[e] # "idle" /\ args'[e].valid /\ (closing \/ shutdown))
         => /\ pending' = pending
            /\ seq' = seq
            /\ wire' = wire
            /\ pc'[e] = "done"
            /\ ret'[e] = RetErr(ErrShutdown)]_vars

\* An Execute was refused by the admission test.
NoAdmissionWitness ==
  \E e \in Execs : Done(e) /\ args[e].valid /\ ~Registered(e) /\ calls[e].made

\* C4: of all the Close calls, exactly one sets closing, closes the connection and
\* returns the connection's result (nil when the child had not crashed); every
\* other one returns ErrShutdown; the connection is closed at most once.
CloseOnce ==
  LET closed == {k \in Closers : cpc[k] = "done"}
      first == {k \in closed : cret[k] # ErrShutdown}
  IN /\ connClosed <= 1
     /\ closing <=> closed # {}
     /\ closed # {} => Cardinality(first) = 1 /\ connClosed = 1
     /\ closed = {} => connClosed = 0
     /\ \A k \in first : cret[k] \in {ErrNil, ErrConn} /\ (~fault => cret[k] = ErrNil)

\* Two Close calls have returned: one nil, one ErrShutdown.
CloseOnceWitness ==
  \E j, k \in Closers : /\ cpc[j] = "done" /\ cret[j] = ErrNil
                        /\ cpc[k] = "done" /\ cret[k] = ErrShutdown

\* C5, as stated: every Execute invoked after Close has returned returns
\* ErrShutdown.
AfterCloseShutdown ==
  \A e \in Execs : Done(e) /\ hist[e].afterClose => ret[e] = RetErr(ErrShutdown)

\* C5, amended: every Execute with valid arguments invoked after Close has
\* returned returns ErrShutdown (one with invalid arguments returns the
\* validation error).
AfterCloseShutdownValid ==
  \A e \in Execs :
    Done(e) /\ hist[e].afterClose =>
      ret[e] = (IF args[e].valid THEN RetErr(ErrShutdown) ELSE RetErr(ErrInvalid))

\* An Execute with valid arguments, invoked after Close, has returned.
AfterCloseWitness ==
  \E e \in Execs : Done(e) /\ hist[e].afterClose /\ args[e].valid

\* C6, as stated, for Executes with valid arguments: an Execute submitted after
\* the reader has left its loop returns ErrShutdown.
AfterExitShutdown ==
  \A e \in Execs :
    Done(e) /\ hist[e].afterExit /\ args[e].valid => ret[e] = RetErr(ErrShutdown)

\* C6, amended: an Execute with valid arguments submitted after the reader's sweep
\* has run returns ErrShutdown, and no Execute submitted after the reader has left
\* its loop returns a result.
AfterSweepShutdown ==
  \A e \in Execs :
    /\ Done(e) /\ hist[e].afterSweep /\ args[e].valid => ret[e] = RetErr(ErrShutdown)
    /\ hist[e].afterExit => ret[e].kind # "ok"

\* An Execute with valid arguments has returned that was submitted after the
\* sweep of a reader that saw the stream end with no Close.
AfterSweepWitness ==
  \E e \in Execs : Done(e) /\ hist[e].afterSweep /\ args[e].valid /\ ~closing

\* The Execute took its completion from the Done channel.
Received(e) == Done(e) /\ calls[e].completions = 1 /\ calls[e].Done = 0

\* C7, as stated: once Close has run and the child has not exited on its own,
\* every Execute that returns has its own result or exactly ErrShutdown.
CloseRaceOutcomeAll ==
  \A e \in Execs :
    Done(e) /\ closing /\ ~fault => ret[e] = RetErr(ErrShutdown) \/ OwnResult(e)

\* C7, amended: while the child does not exit on its own, every Execute with valid
\* arguments whose deadline does not fire returns its own result or exactly
\* ErrShutdown; the calls swept after the stream ended get ErrShutdown when Close
\* had run and io.ErrUnexpectedEOF when it had not, and that is what an Execute
\* taking the completion returns.
CloseRaceOutcome ==
  /\ \A e \in Execs :
       Done(e) /\ ~fault /\ args[e].valid /\ ret[e] # RetErr(ErrTimeout)
         => ret[e] = RetErr(ErrShutdown) \/ OwnResult(e)
  /\ rpc = "swept" /\ isEOF(rerr) =>
       \A e \in Execs :
         InPending(e) =>
           /\ calls[e].Error = (IF sweptClosing THEN ErrShutdown ELSE ErrUnexpectedEOF)
           /\ Received(e) => ret[e] = RetErr(calls[e].Error)

\* During a Close race one Execute returned its result and another, in flight,
\* took ErrShutdown from the sweep.
CloseRaceWitness ==
  /\ closing /\ ~fault
  /\ \E d, e \in Execs :
       /\ Done(d) /\ OwnResult(d)
       /\ Received(e) /\ InPending(e) /\ ret[e] = RetErr(ErrShutdown)

\* C8: after a Close race (the child did not exit on its own, no deadline fired,
\* all arguments valid), once Close and every Execute have returned, IsShutDown()
\* is true.
ShutDownAfterCloseRace ==
  ( /\ \E k \in Closers : cpc[k] = "done"
    /\ ~fault
    /\ \A e \in Execs : Done(e) /\ args[e].valid /\ ret[e] # RetErr(ErrTimeout) )
  => IsShutDown

Drained(e) == rpc = "swept" /\ InPending(e)

CloseReturned == \E k \in Closers : cpc[k] = "done"

IdsMonotonic ==
  /\ [](/\ seq = Cardinality({e \in Execs : Registered(e)})
        /\ \A d, e \in Execs :
             Registered(d) /\ Registered(e) /\ d < e => hist[d].key < hist[e].key
        /\ \A e \in Execs : Registered(e) => hist[e].key < seq
        /\ \A id \in DOMAIN pending : hist[pending[id]].key = id
        /\ \A i, j \in Requests : i # j => wire[i].id # wire[j].id)
  /\ [][\A id \in DOMAIN pending : id \in DOMAIN pending' => pending'[id] = pending[id]]_vars

\* Two calls are in pending together and both requests are on the wire.
IdsMonotonicWitness ==
  /\ DOMAIN pending = {0, 1}
  /\ pending[0] # pending[1]
  /\ \E i, j \in Requests : wire[i].id = 0 /\ wire[j].id = 1

\* C13: every frame on the child's stdin is whole: a payload comes right after a
\* length prefix written by the same task, and the prefix decodes to the payload's
\* byte length; a prefix is followed by nothing but its own payload, and while that
\* payload is not there its writer is between its two writes holding sendMu, or
\* the pipe is broken and nothing is written after; the frames are the messages
\* sent, in the order they were sent.
FramesAtomic ==
  /\ \A i \in 1..Len(stream) :
       /\ stream[i].part = "payload" =>
            /\ i > 1
            /\ stream[i-1].part = "len"
            /\ stream[i-1].writer = stream[i].writer
            /\ ReadUvarint(stream[i-1].bytes) = Size(stream[i].msg)
       /\ stream[i].part = "len" /\ i < Len(stream) =>
            /\ stream[i+1].part = "payload"
            /\ stream[i+1].writer = stream[i].writer
  /\ Len(stream) > 0 /\ stream[Len(stream)].part = "len" =>
       \/ /\ Loc(stream[Len(stream)].writer) = "send4"
          /\ sendMu = stream[Len(stream)].writer
       \/ WriteResult(childUp, connClosed) # ErrNil
  /\ wire = [i \in 1..Len(wire) |-> stream[2 * i].msg]
  /\ Len(stream) \in {2 * Len(wire), 2 * Len(wire) + 1}

\* The reader is between the two writes of a callback reply while a caller waits
\* to send its compile request, and a request of another caller is on the wire.
FramesAtomicWitness ==
  /\ Loc(Reader) = "send4"
  /\ stream[Len(stream)].part = "len"
  /\ \E e \in Execs : pc[e] = "send0"
  /\ \E i \in 1..Len(stream) : stream[i].part = "payload" /\ stream[i].writer \in Execs

Tasks == Execs \cup {Reader} \cup {Closer(k) : k \in Closers}

\* The mutex task t is about to Lock(), "" when its next step is no Lock().
Wants(t) ==
  IF t \in Execs THEN
    CASE pc[t] = "idle" -> "mu"
      [] pc[t] = "send0" -> SendLockOrder[1]
      [] pc[t] = "send1" -> SendLockOrder[2]
      [] OTHER -> ""
  ELSE IF t = Reader THEN
    CASE rpc = "loop" -> "mu"
      [] rpc = "send0" -> SendLockOrder[1]
      [] rpc = "send1" -> SendLockOrder[2]
      [] rpc = "exited" -> SweepLockOrder[1]
      [] rpc = "sweep1" -> SweepLockOrder[2]
      [] OTHER -> ""
  ELSE
    CASE cpc[t - Reader] = "idle" -> CloseLockOrder[1]
      [] cpc[t - Reader] = "close1" -> CloseLockOrder[2]
      [] OTHER -> ""

\* C14: no task is about to lock sendMu while it holds mu; a task that has taken
\* the first of the two locks in sendInboundMessage, Close or the sweep holds
\* sendMu and not mu, so that whenever it holds both sendMu came first; and no two
\* tasks wait for each other's lock.
LockOrdering ==
  /\ \A t \in Tasks : Wants(t) = "sendMu" => mu # t
  /\ \A t \in Execs \cup {Reader} : Loc(t) = "send1" => sendMu = t /\ mu # t
  /\ rpc = "sweep1" => sendMu = Reader /\ mu # Reader
  /\ \A k \in Closers : cpc[k] = "close1" => sendMu = Closer(k) /\ mu # Closer(k)
  /\ \A t \in Tasks : mu = t /\ t \notin Execs => sendMu = t \/ Wants(t) = ""
  /\ ~ \E t, u \in Tasks :
         /\ t # u
         /\ mu = t /\ Wants(t) = "sendMu" /\ sendMu = u /\ Wants(u) = "mu"

\* A Close holds both locks while a caller waits to send and the reader waits to
\* run its sweep.
LockOrderingWitness ==
  /\ \E k \in Closers : cpc[k] = "close2" /\ mu = Closer(k) /\ sendMu = Closer(k)
  /\ \E e \in Execs : pc[e] = "send0"
  /\ rpc = "exited"

\* C15: an Execute whose arguments fail validation returns the validation error
\* from newCall's critical section: that step writes nothing to the child, leaves
\* pending, the id counter, closing and shutdown as they were and releases mu; the
\* Execute never holds a lock afterwards and nothing of it is on the wire.
InvalidArgsNoEffect ==
  /\ [][\A e \in Execs :
          (pc[e] = "newCall" /\ pc'[e] # "newCall" /\ ~args[e].valid) =>
            /\ pc'[e] = "done"
            /\ ret'[e] = RetErr(ErrInvalid)
            /\ stream' = stream
            /\ wire' = wire
            /\ pending' = pending
            /\ seq' = seq
            /\ closing' = closing
            /\ shutdown' = shutdown
            /\ mu' = NoTask
            /\ sendMu' = sendMu]_vars
  /\ [](\A e \in Execs :
          Done(e) /\ ~args[e].valid =>
            /\ mu # e
            /\ sendMu # e
            /\ ~Registered(e)
            /\ ~calls[e].made
            /\ \A i \in 1..Len(stream) : stream[i].writer # e)

\* An Execute with invalid arguments has returned the validation error while
\* another call is registered.
InvalidArgsWitness ==
  \E d, e \in Execs :
    /\ Done(e) /\ ~args[e].valid /\ ret[e] = RetErr(ErrInvalid)
    /\ InPending(d)

\* Nobody has called Close and the child has not failed.
Undisturbed == (\A k \in Closers : cpc[k] = "idle") /\ ~fault

\* C16: a compile failure or a resolver's error stops nothing.  While nobody has
\* called Close and the child has not failed the reader is in its loop and closing
\* and shutdown are false, whatever failures were returned; the record of an
\* Execute that returned a SassError is out of pending and the error is the
\* Failure answered to its own request; the reader sends a resolver's error as
\* the reply and goes on reading; an Execute with valid arguments invoked after a
\* SassError was returned is registered like any other, and what it returns is
\* its own result.
FailureDoesNotPoison ==
  /\ [](Undisturbed => rpc \in {"loop", "reply"} /\ ~closing /\ ~shutdown)
  /\ [](\A e \in Execs :
          /\ ret[e] = RetErr("SassError") =>
               /\ ~InPending(e)
               /\ OwnResult(e)
               /\ calls[e].Response.kind = "Failure"
          /\ ( /\ hist[e].afterSassError /\ args[e].valid /\ pc[e] # "idle"
               /\ ~hist[e].afterClose /\ ~hist[e].afterSweep ) => Registered(e)
          /\ hist[e].afterSassError /\ ret[e].kind = "ok" => OwnResult(e))
  /\ [][(rpc = "reply" /\ rreply.kind = "error" /\ rpc' # "reply"
          /\ sendInboundMessage(closing, shutdown, childUp, connClosed) = ErrNil)
        => (rpc' = "loop" /\ wire' = Append(wire, rreply)
            /\ closing' = closing /\ shutdown' = shutdown /\ pending' = pending)]_vars

\* An Execute returned a SassError after its resolver had failed, and an Execute
\* invoked after that returned its result.
FailureDoesNotPoisonWitness ==
  \E d, e \in Execs :
    /\ ret[d] = RetErr("SassError")
    /\ \E cb \in served : cb.cid = hist[d].key /\ cb.kind = "error"
    /\ hist[e].afterSassError
    /\ ret[e].kind = "ok"

\* C17: a timeout touches one call only.  The step in which an Execute returns the
\* timeout error changes neither closing nor shutdown nor pending nor the reader
\* nor any other call; the compile response that arrives later for the timed-out
\* id finds its record, so the reader does not stop for an unknown id unless the
\* child failed (it answered one request twice) and, while
\* nobody has called Close and the child has not failed, stays in its loop; an
\* Execute invoked after a timeout that returns a result returns its own.
TimeoutPerCall ==
  /\ [][\A e \in Execs :
          (pc[e] = "wait" /\ pc'[e] = "done" /\ ret'[e] = RetErr(ErrTimeout)) =>
            /\ closing' = closing
            /\ shutdown' = shutdown
            /\ pending' = pending
            /\ rpc' = rpc
            /\ rerr' = rerr
            /\ calls' = calls
            /\ \A d \in Execs \ {e} : pc'[d] = pc[d] /\ ret'[d] = ret[d]]_vars
  /\ [](/\ ~fault => rerr # ErrNotFound
        /\ \A e \in Execs :
             /\ ret[e] = RetErr(ErrTimeout) /\ calls[e].Response # NoMsg =>
                  /\ ~InPending(e)
                  /\ calls[e].Response.id = hist[e].key
                  /\ Undisturbed => rpc \in {"loop", "reply"} /\ ~closing /\ ~shutdown
             /\ hist[e].afterTimeout /\ ret[e].kind = "ok" => OwnResult(e))

\* An Execute timed out, its compile response arrived afterwards, and an Execute
\* invoked after the timeout returned its result.
TimeoutPerCallWitness ==
  \E d, e \in Execs :
    /\ ret[d] = RetErr(ErrTimeout)
    /\ calls[d].Response # NoMsg
    /\ calls[d].Done = 1
    /\ hist[e].afterTimeout
    /\ ret[e].kind = "ok"

\* What can end the reader loop.
LoopErrors ==
  {ErrEOF, ErrAlreadyClosed, ErrUnexpectedEOF, ErrNotFound, ErrShutdown, ErrWrite,
   ErrPayload}
    \cup ProtocolErrors

\* C18: whatever ended the reader loop (a failed read, a frame that does not
\* decode, a compile response for an unknown id, a top-level Error message, an
\* unknown variant, a failed write of a callback reply), the sweep sets shutdown
\* and completes every call that is in pending at that moment, each once more and
\* all with one and the same error, made of the error that ended the loop.
SweepCompletesAll ==
  /\ [][(rpc = "exited" /\ rpc' = "swept") =>
          /\ shutdown'
          /\ rerr \in LoopErrors
          /\ \A id \in DOMAIN pending :
               /\ calls'[pending[id]].Error = Classify(rerr, closing)
               /\ calls'[pending[id]].Done = 1
               /\ calls'[pending[id]].completions = calls[pending[id]].completions + 1
          /\ \A e \in Execs : ~InPending(e) => calls'[e] = calls[e]]_vars
  /\ [](rpc \in {"exited", "swept"} => rerr \in LoopErrors)
  /\ [](rpc = "swept" =>
          /\ shutdown
          /\ \A id, jd \in DOMAIN pending :
               /\ calls[pending[id]].Error # ErrNil
               /\ calls[pending[id]].Error = calls[pending[jd]].Error)

\* The loop ended on a compile response for an unknown id and the sweep completed
\* the call in pending with that error, which its Execute returned.
SweepCompletesAllWitness ==
  /\ rpc = "swept"
  /\ rerr = ErrNotFound
  /\ \E e \in Execs : InPending(e) /\ ret[e] = RetErr(ErrNotFound)

\* C19: the sweep takes the writer lock, then the registry lock, and runs holding
\* both.  It gives every call in pending ErrShutdown when the loop ended on io.EOF
\* or on an "already closed" error and closing is set, io.ErrUnexpectedEOF when it
\* ended on one of these and closing is not set, and the terminating error itself
\* in every other case.
SweepClassifies ==
  /\ [](rpc = "sweep1" => sendMu = Reader /\ mu # Reader)
  /\ [](rpc = "sweep2" => sendMu = Reader /\ mu = Reader)
  /\ [][rpc = "exited" /\ rpc' # "exited" => rpc' = "sweep1"]_vars
  /\ [][rpc = "sweep1" /\ rpc' # "sweep1" => rpc' = "sweep2"]_vars
  /\ [][(rpc = "sweep2" /\ rpc' = "swept") =>
          /\ shutdown'
          /\ \A id \in DOMAIN pending :
               calls'[pending[id]].Error =
                 IF rerr \in {ErrEOF, ErrAlreadyClosed}
                 THEN (IF closing THEN ErrShutdown ELSE ErrUnexpectedEOF)
                 ELSE rerr]_vars

\* The read failed on the closed pipe after a Close, and the sweep gave the call
\* in pending ErrShutdown.
SweepClassifiesWitness ==
  /\ rpc = "swept"
  /\ rerr = ErrAlreadyClosed
  /\ sweptClosing
  /\ mu # Reader
  /\ sendMu # Reader
  /\ \E e \in Execs : InPending(e) /\ calls[e].Error = ErrShutdown

\* C20: a panic that aborts an Execute inside newCall or inside
\* sendInboundMessage, before or after the write, leaves neither t.mu nor
\* t.sendMu held by the Execute that panicked, and the Executes of the other
\* callers that return a result return their own.
PanicLeavesLocksFree ==
  \A e \in Execs :
    /\ pc[e] = "panicked" => mu # e /\ sendMu # e
    /\ ret[e].kind = "ok" => OwnResult(e)

\* What a function made of the input, of the input in lower case and of the input
\* in upper case.
Parsed(fn, str) ==
  IF fn = "ParseOutputStyle" THEN ParseOutputStyle(str) ELSE ParseSourceSyntax(str)

\* The function ignores letter case and applying it to its result changes nothing.
ParseStable(fn) ==
  pout.fn = fn =>
    /\ pout.first = Parsed(fn, ToLower(pin))
    /\ pout.first = Parsed(fn, ToUpper(pin))
    /\ \A other \in ParseInputs : ToUpper(other) = ToUpper(pin) => Parsed(fn, other) = pout.first
    /\ pout.twice => pout.again = pout.first

\* C29: ParseOutputStyle ignores letter case, applying it to its own result
\* changes nothing, and it maps every string that is not the name of a style, such
\* as "foo", to OutputStyleExpanded.
ParseOutputStyleDefaultExpanded ==
  /\ ParseStable("ParseOutputStyle")
  /\ pout.fn = "ParseOutputStyle" =>
       /\ ToUpper(pin) = OutputStyleCompressed => pout.first = OutputStyleCompressed
       /\ ToUpper(pin) = OutputStyleExpanded => pout.first = OutputStyleExpanded
       /\ ToUpper(pin) \notin {OutputStyleNested, OutputStyleExpanded, OutputStyleCompact,
                               OutputStyleCompressed} => pout.first = OutputStyleExpanded

\* C30: ParseSourceSyntax ignores letter case, applying it to its own result
\* changes nothing, it maps "sass" and "indented" in any case to SourceSyntaxSASS,
\* "scss" and "css" to their own values and every other string to SourceSyntaxSCSS.
ParseSourceSyntaxTotal ==
  /\ ParseStable("ParseSourceSyntax")
  /\ pout.fn = "ParseSourceSyntax" =>
       /\ ToUpper(pin) \in {SassWord, SourceSyntaxSASS} => pout.first = SourceSyntaxSASS
       /\ ToUpper(pin) = SourceSyntaxSCSS => pout.first = SourceSyntaxSCSS
       /\ ToUpper(pin) = SourceSyntaxCSS => pout.first = SourceSyntaxCSS
       /\ ToUpper(pin) \notin {SassWord, SourceSyntaxSASS, SourceSyntaxSCSS, SourceSyntaxCSS}
            => pout.first = SourceSyntaxSCSS

\* "sAsS" was parsed to SourceSyntaxSASS, and parsing that again gave it again.
ParseSourceSyntaxWitness ==
  /\ pin = Cased(SassWord, {2, 4})
  /\ pout.fn = "ParseSourceSyntax"
  /\ pout.first = SourceSyntaxSASS
  /\ pout.twice
  /\ pout.again = SourceSyntaxSASS

\* C27: after any writes of any sizes the tail buffer holds at most limit bytes,
\* and what it holds is the end of everything that was written.
TailCapped ==
  /\ Len(tbuf) <= TailLimit
  /\ Len(tbuf) <= Len(twritten)
  /\ tbuf = SubSeq(twritten, Len(twritten) - Len(tbuf) + 1, Len(twritten))

\* C28: the importer list holds the host-callback importer iff a resolver was
\* supplied, and then once and first; after it comes one path importer per include
\* path, in the order given, each holding its path cleaned (no separator twice in
\* a row); no path importer comes before the host-callback importer.
ImportersOrdered ==
  oin.inited =>
    LET n == Len(oimporters)
        first == IF oin.resolver THEN 1 ELSE 0
    IN
    /\ oin.resolver <=> \E k \in 1..n : oimporters[k].kind = "ImporterId"
    /\ oin.resolver => oimporters[1].kind = "ImporterId"
    /\ Cardinality({k \in 1..n : oimporters[k].kind = "ImporterId"}) = first
    /\ n = first + Len(oin.paths)
    /\ \A k \in 1..Len(oin.paths) :
         /\ oimporters[first + k].kind = "Path"
         /\ oimporters[first + k].path = Clean(oin.paths[k])
         /\ \A i \in 1..(Len(oimporters[first + k].path) - 1) :
              ~(oimporters[first + k].path[i] = "/" /\ oimporters[first + k].path[i + 1] = "/")
    /\ \A j, k \in 1..n :
         (oimporters[j].kind = "Path" /\ oimporters[k].kind = "ImporterId") => k < j

\* A resolver and the include paths "a//" and "/.a" gave the host-callback
\* importer, then "a", then "/.a".
ImportersOrderedWitness ==
  /\ oin.inited
  /\ oin.resolver
  /\ oin.paths = << <<"a", "/", "/">>, <<"/", ".", "a">> >>
  /\ oimporters = <<IdImporter, PathImporter(<<"a">>), PathImporter(<<"/", ".", "a">>)>>

\* C25: conn.Close closes the writer, then the reader, then waits for the child,
\* and takes each step whatever the steps before answered; it returns the writer's
\* error if there is one, else the reader's if there is one, else what the wait
\* returned.
CloseStepsInOrder ==
  /\ \A i \in 1..Len(cstep) : cstep[i].step = <<"closeWriter", "closeReader", "wait">>[i]
  /\ Len(cstep) >= 1 => cstep[1].err = cio.writeErr
  /\ Len(cstep) >= 2 => cstep[2].err = cio.readErr
  /\ cout # "none" =>
       /\ Len(cstep) = 3
       /\ cio.writeErr # ErrNil => cout = cio.writeErr
       /\ (cio.writeErr = ErrNil /\ cio.readErr # ErrNil) => cout = cio.readErr
       /\ (cio.writeErr = ErrNil /\ cio.readErr = ErrNil) => cout = cstep[3].err

\* Closing the writer and closing the reader both failed; the wait was made all
\* the same, and Close returned the writer's error.
CloseStepsInOrderWitness ==
  /\ cio.writeErr = ErrWriterClose
  /\ cio.readErr = ErrReaderClose
  /\ cio.exit = "nonzero"
  /\ Len(cstep) = 3
  /\ cstep[3].err = ErrExit
  /\ cout = ErrWriterClose

\* C26: the wait returns nil when the child exited with a nonzero status and the
\* stderr tail has "Broken pipe" or "pipe is being closed" in it, the exit error
\* when the status is nonzero and the tail has neither, and the timeout error when
\* the child has not exited in time.
WaitSuppressesBrokenPipe ==
  Len(cstep) = 3 =>
    /\ (cio.exit = "nonzero" /\ \E i \in 1..Len(cio.tail) :
          cio.tail[i] = "Broken pipe" \/ cio.tail[i] = "pipe is being closed")
         => cstep[3].err = ErrNil
    /\ (cio.exit = "nonzero" /\ \A i \in 1..Len(cio.tail) :
          cio.tail[i] # "Broken pipe" /\ cio.tail[i] # "pipe is being closed")
         => cstep[3].err = ErrExit
    /\ cio.exit = "hung" => cstep[3].err = ErrWaitTimeout

\* The child exited with a nonzero status after writing "pipe is being closed" to
\* stderr, and Close returned nil.
WaitSuppressesWitness ==
  /\ cio.writeErr = ErrNil
  /\ cio.readErr = ErrNil
  /\ cio.exit = "nonzero"
  /\ cio.tail = <<"Unhandled exception", "pipe is being closed">>
  /\ cout = ErrNil

\* The ids of the messages of the given types, in the order of the sequence.
IdsOf(msgs, types) ==
  LET sel == SelectSeq(msgs, LAMBDA m : m.type \in types) IN
  [k \in 1..Len(sel) |-> sel[k].id]

CallbackRequestIds == IdsOf(sent, {"CanonicalizeRequest", "ImportRequest"})
CallbackReplyIds == IdsOf(wire, {"CanonicalizeResponse", "ImportResponse"})

\* C21: the replies to the callback requests are written in the order of the
\* requests, each with its request's id and before the next frame is read: when
\* the reader is reading, the reply ids on the wire are the request ids the
\* compiler sent, in order; while it is replying, all but the last, whose reply it
\* holds; at any time the replies are the requests' ids up to at most one missing
\* at the end.
RepliesInRequestOrder ==
  LET req == CallbackRequestIds
      rep == CallbackReplyIds
  IN
  /\ Len(rep) <= Len(req)
  /\ Len(req) - Len(rep) <= 1
  /\ rep = SubSeq(req, 1, Len(rep))
  /\ rpc = "loop" => rep = req
  /\ rpc = "reply" => Len(rep) = Len(req) - 1 /\ rreply.id = req[Len(req)]
  /\ \A k \in 1..Len(rep) :
       LET replies == SelectSeq(wire, LAMBDA m :
                        m.type \in {"CanonicalizeResponse", "ImportResponse"})
       IN replies[k].type = ReplyType(sent[k].type)

\* An import request and then a canonicalize request of two compilations were
\* answered, in this order.
RepliesInRequestOrderWitness ==
  /\ Len(sent) = 2
  /\ sent[1].type = "ImportRequest"
  /\ sent[2].type = "CanonicalizeRequest"
  /\ sent[1].cid # sent[2].cid
  /\ CallbackReplyIds = <<0, 1>>
  /\ rpc = "loop"

\* The replies to the k-th frame the reader read: those on the wire and the one
\* the reader is about to write.
RepliesTo(k) ==
  {wire[j] : j \in {j \in 1..Len(wire) :
                      wire[j].type = ReplyType(sent[k].type) /\ wire[j].id = sent[k].id}}
    \cup (IF rpc = "reply" /\ k = Len(sent) THEN {rreply} ELSE {})

\* The k-th frame was answered on the wire exactly once, or not yet and it is the
\* last one read.
AnsweredOnce(k) ==
  LET n == Cardinality({j \in 1..Len(wire) :
                          wire[j].type = ReplyType(sent[k].type) /\ wire[j].id = sent[k].id})
  IN n <= 1 /\ ((k < Len(sent) \/ rpc = "loop") => n = 1)

LogFrames == SelectSeq(sent, LAMBDA m : m.type = "LogEvent")

ValidationFirst ==
  \A e \in Execs :
    (Done(e) /\ ~args[e].valid) =>
      /\ ret[e] = RetErr(ErrInvalid)
      /\ ret[e].err # ErrShutdown
      /\ calls[e] = NoCall

\* An Execute with invalid arguments, invoked after a Close had returned and the
\* sweep had set shutdown, has returned the validation error.
ValidationFirstWitness ==
  \E e \in Execs :
    /\ Done(e)
    /\ ~args[e].valid
    /\ hist[e].afterClose
    /\ hist[e].afterSweep
    /\ closing /\ shutdown
    /\ ret[e] = RetErr(ErrInvalid)

\* C33: a compile request is on the wire only if its call was put into pending
\* under the id the request carries, and only the compile response with that id
\* takes a record out of pending: every request on the wire that has not been
\* answered has its id in pending, with the call that carries this id; and the
\* reader ends with "call with ID not found" only on a response to a request that
\* had been answered before.
RequestsArePending ==
  /\ [](\A i \in Requests :
          ~Answered(i) =>
            /\ wire[i].id \in DOMAIN pending
            /\ calls[pending[wire[i].id]].reqId = wire[i].id
            /\ hist[pending[wire[i].id]].key = wire[i].id)
  /\ [][\A id \in DOMAIN pending :
          id \notin DOMAIN pending' =>
            \E m \in emitted' \ emitted :
              m[2].type = "CompileResponse" /\ m[2].id = id]_vars
  /\ [][(rerr' = ErrNotFound /\ rerr # ErrNotFound) =>
          /\ emitted' = emitted
          /\ \E i \in Requests : Answered(i)]_vars

\* Of two requests on the wire one was answered and is in pending no more; the
\* other is unanswered and still in pending although its Execute timed out.
RequestsArePendingWitness ==
  \E i, j \in Requests :
    /\ ~Answered(i)
    /\ Answered(j)
    /\ wire[i].id \in DOMAIN pending
    /\ wire[j].id \notin DOMAIN pending
    /\ ret[pending[wire[i].id]] = RetErr(ErrTimeout)

\* What sendInboundMessage returned to task t in this step.
SendReturned(t, err) ==
  IF t = Reader THEN rpc' = "exited" /\ rerr' = err
  ELSE pc'[t] = "done" /\ ret'[t] = RetErr(err)

\* C32: nothing is written to the child's stdin once closing is set.  A sender
\* past the test of sendInboundMessage holds sendMu, and closing and shutdown are
\* unset and the pipe is open for as long as it is there; every write happens with
\* closing unset; a sender that takes the test with closing or shutdown set
\* returns ErrShutdown, writes nothing and releases sendMu; and the step of Close
\* that sets closing tears the connection down before it gives sendMu up.
NoWriteOnceClosing ==
  /\ [](\A t \in Senders :
          Loc(t) \in {"send3", "send4"} =>
            sendMu = t /\ ~closing /\ ~shutdown /\ connClosed = 0)
  /\ [][stream' # stream => ~closing /\ ~closing' /\ connClosed' = 0]_vars
  /\ [][\A t \in Senders :
          (Loc(t) = "send2" /\ Loc(t)' # "send2" /\ (closing \/ shutdown)) =>
            /\ SendReturned(t, ErrShutdown)
            /\ stream' = stream
            /\ wire' = wire
            /\ sendMu' = NoTask]_vars
  /\ [][(closing' /\ ~closing) =>
          /\ \E k \in Closers : sendMu = Closer(k) /\ mu = Closer(k)
          /\ connClosed' = connClosed + 1
          /\ sendMu' = NoTask
          /\ stream' = stream]_vars

\* After a Close, a registered Execute was refused by sendInboundMessage: nothing
\* of it is on the child's stdin, which holds what another sender wrote before.
NoWriteOnceClosingWitness ==
  /\ closing
  /\ stream # << >>
  /\ \E e \in Execs :
       /\ Registered(e)
       /\ ret[e] = RetErr(ErrShutdown)
       /\ \A i \in 1..Len(stream) : stream[i].writer # e

\* C38: a failed write of a frame is reported and nothing else happens.  When the
\* write of the length prefix fails, sendInboundMessage returns that error and
\* the payload is not written; when the prefix was written and the payload was
\* not, in full, it returns "failed to write payload"; either way nothing is
\* retried, closing, shutdown, pending and the id counter stay as they are and
\* sendMu is released.
WriteFailuresReported ==
  [][\A t \in Senders :
       /\ (Loc(t) = "send3" /\ Loc(t)' \notin {"send3", "send4", "panicked"}) =>
            /\ SendReturned(t, ErrWrite)
            /\ stream' = stream
            /\ wire' = wire
            /\ UNCHANGED <<closing, shutdown, pending, seq>>
            /\ sendMu = t
            /\ sendMu' = NoTask
       /\ (Loc(t) = "send4" /\ Loc(t)' # "send4" /\ stream' = stream) =>
            /\ SendReturned(t, ErrPayload)
            /\ stream[Len(stream)].part = "len"
            /\ stream[Len(stream)].writer = t
            /\ wire' = wire
            /\ UNCHANGED <<closing, shutdown, pending, seq>>
            /\ sendMu = t
            /\ sendMu' = NoTask]_vars

\* The child went away between the two writes of an Execute: the prefix is the
\* last thing on the child's stdin, the Execute returned "failed to write
\* payload", its call is still in pending and no lock is held.
WriteFailuresWitness ==
  \E e \in Execs :
    /\ ret[e] = RetErr(ErrPayload)
    /\ stream # << >>
    /\ stream[Len(stream)].part = "len"
    /\ stream[Len(stream)].writer = e
    /\ InPending(e)
    /\ ~closing /\ ~shutdown
    /\ sendMu = NoTask /\ mu = NoTask

\* C31: done() never blocks.  A completer that is inside done() can always take
\* its step and return, whether the caller has not reached its select yet, waits
\* there, has received a completion or has given the wait up, and whether or not
\* the channel already holds a completion; the channel never holds more than one
\* completion and the caller receives at most one.
DoneNeverBlocks ==
  /\ \A w \in Completers : dpc[w] = "done()" => ENABLED DoneReturn(w)
  /\ dcall.Done \in 0..ChanCap
  /\ dgot <= 1
  /\ dgot = 1 <=> dwait = "received"
  /\ (dcall.completions > 0 /\ dgot = 0) => dcall.Done = 1

\* The caller gave the wait up; the call was then completed twice, by the
\* response and by the sweep, and both completers have returned from done(): the
\* channel holds the one completion nobody will take.
DoneNeverBlocksWitness ==
  /\ dwait = "abandoned"
  /\ dcall.completions = 2
  /\ dcall.Done = 1
  /\ dcall.Response # NoMsg
  /\ dcall.Error = ErrUnexpectedEOF
  /\ \A w \in Completers : dpc[w] = "idle"

\* C37, as stated: a callback request that names a compilation id with no pending
\* record, or a compilation registered without a resolver, does not make the
\* reader abort without the sweep: when the reader has stopped on it, shutdown is
\* set and every call in pending was completed with an error.
GarbageCallbackSwept ==
  rpc = "panic" =>
    /\ shutdown
    /\ \A e \in Execs : InPending(e) => calls[e].Error # ErrNil /\ calls[e].Done = 1

\* C35: closing leads to shutdown: once Close has set closing, the reader leaves
\* its loop and its sweep sets shutdown, wherever the reader was when closing was
\* set: reading, or about to write the reply to a callback.
ClosingLeadsToShutdown == closing ~> shutdown

\* Close set closing while the reader was about to write a callback reply: the
\* write was refused with ErrShutdown, the loop ended on it and the sweep set
\* shutdown.
ClosingLeadsToShutdownWitness ==
  /\ closing
  /\ shutdown
  /\ sweptClosing
  /\ rerr = ErrShutdown
  /\ rpc = "swept"

\* The reader has left its loop.
LoopOver == rpc \in {"exited", "swept"}

\* C34: with no deadline, no Execute waits for ever once the reader loop has read
\* its response or has ended: a call whose response was read is completed by that
\* step; every call that is registered when the loop is over is eventually
\* completed and its Execute returns; after the sweep every call in pending is
\* completed; and no call is registered once the sweep has run: an Execute invoked
\* after it is refused with ErrShutdown.
NoExecuteWaitsForever ==
  /\ \A e \in Execs :
       (Registered(e) /\ LoopOver) ~> (calls[e].completions > 0 /\ Done(e))
  /\ [](\A i \in Requests :
          Answered(i) => \E e \in Execs :
            calls[e].reqId = wire[i].id /\ calls[e].completions > 0)
  /\ [](rpc = "swept" => \A e \in Execs : InPending(e) => calls[e].completions > 0)
  /\ [][\A e \in Execs :
          (Registered(e)' /\ ~Registered(e)) => (~shutdown /\ rpc # "swept")]_vars
  /\ [](\A e \in Execs :
          (Done(e) /\ hist[e].afterSweep /\ args[e].valid) =>
            ~Registered(e) /\ ret[e] = RetErr(ErrShutdown))

\* Nobody called Close; the child exited with two calls registered, one still on
\* its way to the send: the sweep completed both, one Execute returned the
\* sweep's error from its select and the other was refused at the send.
NoExecuteWaitsForeverWitness ==
  /\ rpc = "swept"
  /\ ~closing
  /\ \E d, e \in Execs :
       /\ d # e
       /\ InPending(d) /\ InPending(e)
       /\ ret[d] = RetErr(ErrUnexpectedEOF)
       /\ ret[e] = RetErr(ErrShutdown)
       /\ calls[e].completions > 0

\* C36, as stated: Close returns, whatever the child does with its stdin: the
\* Close that is invoked gets sendMu and mu and comes back from conn.Close.
CloseReturns == <>(cpc[1] = "done")

====
